---- MODULE Spec2Model ----
(***************************************************************************)
(* A model of the market-making engine of trading_game (engine.ts) and of  *)
(* the way it is driven.                                                   *)
(*                                                                         *)
(* Numbers.  Prices, cash and fair values are fixed-point integers in      *)
(* thousandths ("milli"): 45000 is 45.0.  Probabilities and the damping    *)
(* factor are in thousandths too, and a product of two of them is in       *)
(* millionths.  The transcendental functions of the source (Math.log,      *)
(* Math.sqrt, Math.cos, Math.exp) are evaluated on a grid: tables of their *)
(* rounded values, linearly interpolated where the argument is computed.   *)
(* A 32-bit word is a pair <<hi, lo>> of 16-bit halves, because the        *)
(* generator's arithmetic wraps at 2^32.                                   *)
(***************************************************************************)
EXTENDS Integers, Sequences, FiniteSets, TLC

(***************************************************************************)
(* 32-bit word arithmetic, as used by mulberry32 (|0, >>>, ^, |, imul).    *)
(***************************************************************************)
Half == 2 ^ 16

Pow2(n) == 2 ^ n

RECURSIVE XorBits(_, _, _)
XorBits(x, y, n) ==
  IF n = 0 THEN 0
  ELSE ((x + y) % 2) + 2 * XorBits(x \div 2, y \div 2, n - 1)

RECURSIVE OrBits(_, _, _)
OrBits(x, y, n) ==
  IF n = 0 THEN 0
  ELSE (IF x % 2 = 1 \/ y % 2 = 1 THEN 1 ELSE 0) + 2 * OrBits(x \div 2, y \div 2, n - 1)

\* x ^ y on nibbles, tabulated once.
XorNib == [x \in 0..15 |-> [y \in 0..15 |-> XorBits(x, y, 4)]]

Xor16(x, y) ==
    XorNib[x % 16][y % 16]
  + 16 * XorNib[(x \div 16) % 16][(y \div 16) % 16]
  + 256 * XorNib[(x \div 256) % 16][(y \div 256) % 16]
  + 4096 * XorNib[x \div 4096][y \div 4096]

\* x ^ y
Xor32(x, y) == <<Xor16(x[1], y[1]), Xor16(x[2], y[2])>>

\* k | x for a small constant k (1 | a, 61 | t): only the low half changes.
OrLow(k, x) == <<x[1], (x[2] - (x[2] % 64)) + OrBits(k, x[2] % 64, 6)>>

\* x >>> n for 0 < n < 16
Shr32(x, n) ==
  <<x[1] \div Pow2(n), (x[1] % Pow2(n)) * Pow2(16 - n) + (x[2] \div Pow2(n))>>

\* (x + y) | 0, as a bit pattern
Add32(x, y) ==
  LET lo == x[2] + y[2]
      hi == x[1] + y[1] + (lo \div Half)
  IN  <<hi % Half, lo % Half>>

\* The four bytes of a word, least significant first.
Bytes(x) == <<x[2] % 256, x[2] \div 256, x[1] % 256, x[1] \div 256>>

\* Math.imul(x, y): the low 32 bits of the product.
Imul(x, y) ==
  LET a == Bytes(x)
      b == Bytes(y)
      c1 == a[1] * b[1]
      c2 == a[1] * b[2] + a[2] * b[1] + (c1 \div 256)
      c3 == a[1] * b[3] + a[2] * b[2] + a[3] * b[1] + (c2 \div 256)
      c4 == a[1] * b[4] + a[2] * b[3] + a[3] * b[2] + a[4] * b[1] + (c3 \div 256)
  IN  <<(c3 % 256) + 256 * (c4 % 256), (c1 % 256) + 256 * (c2 % 256)>>

\* seed >>> 0 for a non-negative integer seed below 2^31
ToUint32(seed) == <<(seed \div Half) % Half, seed % Half>>

\* 0x6d2b79f5
Increment == <<27947, 31221>>

\* The generator's state after one more call: a = (a + 0x6d2b79f5) | 0.
Advance(a) == Add32(a, Increment)

\* The word a call returns (before the division by 2^32), from the advanced a.
Output(a) ==
  LET t1 == Imul(Xor32(a, Shr32(a, 15)), OrLow(1, a))
      t2 == Xor32(Add32(t1, Imul(Xor32(t1, Shr32(t1, 7)), OrLow(61, t1))), t1)
  IN  Xor32(t2, Shr32(t2, 14))

(***************************************************************************)
(* Values.                                                                 *)
(***************************************************************************)
\* A JavaScript number: finite (v thousandths), or NaN / +Infinity / -Infinity
\* (fin FALSE, v = 0 / 1 / -1).
Num(n) == [fin |-> TRUE, v |-> n]
NaN == [fin |-> FALSE, v |-> 0]
PosInfinity == [fin |-> FALSE, v |-> 1]
NegInfinity == [fin |-> FALSE, v |-> -1]

\* Number.isFinite
IsFinite(x) == x.fin

\* T | null, as a sequence of at most one T
Null == <<>>
Some(x) == <<x>>

\* settings.seed when the optional field is absent
NoSeed == -1

Abs(x) == IF x < 0 THEN -x ELSE x
Max(x, y) == IF x >= y THEN x ELSE y
Min(x, y) == IF x <= y THEN x ELSE y

clamp(x, lo, hi) == Min(hi, Max(lo, x))

(***************************************************************************)
(* The grid on which the source's floating-point functions are evaluated.  *)
(***************************************************************************)
\* A draw's sixteenth: floor(16 * u) for the uniform u = word / 2^32.
Bucket(w) == w[1] \div 4096

\* A draw in millionths: floor(10^6 * u), from the word's high half.
Micro(w) == (w[1] * 15625) \div 1024

\* Math.sqrt(-2 * Math.log(Math.max(1e-12, u))): the floor 1e-12 is active
\* only for u = 0 (the next 32-bit value is 2.3e-10); elsewhere the value at
\* the sixteenth's lower edge (at 1/32 for the first sixteenth).
RadiusTable ==
  <<2633, 2355, 2039, 1830, 1665, 1525, 1401, 1286,
    1177, 1073, 970, 866, 759, 644, 517, 359>>
Radius(w) == IF w = <<0, 0>> THEN 7434 ELSE RadiusTable[Bucket(w) + 1]

\* Math.cos(2 * Math.PI * v) at the sixteenth's lower edge
CosTable ==
  <<1000, 924, 707, 383, 0, -383, -707, -924,
    -1000, -924, -707, -383, 0, 383, 707, 924>>
CosTurn(w) == CosTable[Bucket(w) + 1]

\* A table of values at from, from + step, ..., linearly interpolated, the
\* ends continued flat.
Interpolate(table, from, step, x) ==
  LET last == from + step * (Len(table) - 1)
      y == clamp(x, from, last)
      k == (y - from) \div step
      lo == table[k + 1]
      hi == IF k + 2 <= Len(table) THEN table[k + 2] ELSE lo
  IN  lo + ((hi - lo) * (y - from - k * step)) \div step

\* Math.exp(x) for x in [-1.5, 1.5], every 0.25
ExpTable ==
  <<223, 287, 368, 472, 607, 779, 1000, 1284, 1649, 2117, 2718, 3490, 4482>>
Exp(x) == Interpolate(ExpTable, -1500, 250, x)

\* 1 / (1 + Math.exp(-x)) for x in [-8, 8], every 1
LogisticTable ==
  <<0, 1, 2, 7, 18, 47, 119, 269, 500, 731, 881, 953, 982, 993, 998, 999, 1000>>
Logistic(x) == Interpolate(LogisticTable, -8000, 1000, x)

(***************************************************************************)
(* The scenario catalog (scenarios.ts), the two records the model draws    *)
(* from: one below and one above the point where 0.06 * trueValue          *)
(* exceeds 1.                                                              *)
(***************************************************************************)
Scenarios ==
  { [id |-> "aapl-marketcap", trueValue |-> 3000],
    [id |-> "hollywood-sign-height", trueValue |-> 45000] }

(***************************************************************************)
(* Bounds of the model.                                                    *)
(***************************************************************************)
\* submitQuote calls made on an engine
MaxCalls == 2
\* the largest inventoryLimit an engine is constructed with
MaxInventoryLimit == 2
\* the largest quantity a call asks for
MaxQty == 2
\* the latest reading of the clock
MaxNow == 1

\* The listeners of replaced inputs that a click on Skip may leave behind
MaxStale == 1

(***************************************************************************)
(* What the engine is constructed with and called with.                    *)
(***************************************************************************)
\* settings.seed: absent (Math.random), or a number (a todaySeed() value).
Seeds == {NoSeed, 20250226}

\* The Settings objects an engine is constructed with (the fields the fill
\* rule reads).
SettingsSet ==
  [inventoryLimit : 1..MaxInventoryLimit, seed : Seeds]

\* What Math.random returns: 0, or a value near 0.95.
RandomOutcomes == {<<0, 0>>, <<62259, 0>>}

\* The quotes submitted: two-sided around 30-35, very wide, and the ways a
\* quote fails the sanity checks.
Quote(b, a) == [bid |-> b, ask |-> a]
Quotes ==
  { Quote(Num(30000), Num(35000)),
    Quote(Num(1), Num(900000)),
    Quote(Num(100000), Num(90000)),
    Quote(Num(50000), Num(50000)),
    Quote(Num(0), Num(10000)),
    Quote(NaN, Num(35000)),
    Quote(Num(30000), PosInfinity) }

Qtys == 1..MaxQty

\* The fields of Settings that pnl and defaultQuote read. riskAversion,
\* percentSpread, invSkew and spreadWiden are in thousandths, predefinedSpread
\* in millionths. The welcome screen admits riskAversion, invSkew and
\* spreadWiden >= 0, predefinedSpread >= 1e-6 and percentSpread >= 0.001.
\* Tried here: main.ts' defaults; percent mode; a skew of 3 with no risk
\* aversion; the smallest spreads with neither skew nor widening.
QuoteSettings ==
  { [riskAversion |-> 1000, spreadType |-> "predefined",
     predefinedSpread |-> 10000000, percentSpread |-> 50,
     invSkew |-> 350, spreadWiden |-> 600],
    [riskAversion |-> 2500, spreadType |-> "percent",
     predefinedSpread |-> 10000000, percentSpread |-> 50,
     invSkew |-> 350, spreadWiden |-> 2000],
    [riskAversion |-> 0, spreadType |-> "predefined",
     predefinedSpread |-> 10000000, percentSpread |-> 50,
     invSkew |-> 3000, spreadWiden |-> 600],
    [riskAversion |-> 1000, spreadType |-> "predefined",
     predefinedSpread |-> 1, percentSpread |-> 1,
     invSkew |-> 0, spreadWiden |-> 0] }

\* A Settings object with every field the engine reads.
FullSettings(inventoryLimit, seed, c) ==
  [inventoryLimit |-> inventoryLimit, seed |-> seed,
   riskAversion |-> c.riskAversion, spreadType |-> c.spreadType,
   predefinedSpread |-> c.predefinedSpread, percentSpread |-> c.percentSpread,
   invSkew |-> c.invSkew, spreadWiden |-> c.spreadWiden]

\* The Settings objects of an engine that is also asked for its PnL, its
\* default quote and its break-even: constructed with a seed.
FullSettingsSet ==
  { FullSettings(l, seed, c) :
      l \in 1..MaxInventoryLimit, seed \in Seeds \ {NoSeed}, c \in QuoteSettings }

\* The marks pnl is asked for, in thousandths: the scenarios' true values,
\* zero, and a negative mark.
Marks == {scenario.trueValue : scenario \in Scenarios} \cup {0, -1000}

\* The estimates defaultQuote is asked for, in millionths: 3, 100, and 1e-6.
Estimates == {3000000, 100000000, 1}

(***************************************************************************)
(* The engine (engine.ts).                                                 *)
(***************************************************************************)
\* this.rng: mulberry32(seed) with its closure variable a, or Math.random.
NewRng(s) ==
  IF s.seed # NoSeed
  THEN [seeded |-> TRUE, a |-> ToUint32(s.seed)]
  ELSE [seeded |-> FALSE, a |-> <<0, 0>>]

\* this.state after construction
NewState == [cash |-> 0, inv |-> 0, realized |-> 0, lastMark |-> Null, fills |-> <<>>]

RECURSIVE AdvanceBy(_, _)
AdvanceBy(a, k) == IF k = 0 THEN a ELSE AdvanceBy(Advance(a), k - 1)

\* Mutant: the constructor ignores the seed and always takes Math.random.
DrawsUnseeded(gen, k) == RandomOutcomes

\* The values this.rng() can return on its k-th call from generator gen.
Draws(gen, k) ==
  IF gen.seeded THEN {Output(AdvanceBy(gen.a, k))} ELSE RandomOutcomes

\* What the next five calls of this.rng() can return, one set per call: no
\* submitQuote makes more than five.
Stream(gen) == [k \in 1..5 |-> Draws(gen, k)]

\* The generator after k calls.
After(gen, k) ==
  IF gen.seeded THEN [gen EXCEPT !.a = AdvanceBy(gen.a, k)] ELSE gen

\* sampleFair, given its two draws
sampleFair(trueValue, u, v) ==
  LET sigma == 180
      z == (Radius(u) * CosTurn(v)) \div 1000
      mult == Exp((sigma * z) \div 1000)
  IN  (trueValue * mult) \div 1000

\* Mutant: the bid >= ask check is missing.
quoteSanityNoCross(q) ==
  IF ~IsFinite(q.bid) \/ ~IsFinite(q.ask)
  THEN Some([name |-> "Error", message |-> "Bad quote"])
  ELSE IF q.bid.v <= 0 \/ q.ask.v <= 0
  THEN Some([name |-> "Error", message |-> "Bid/ask must be > 0"])
  ELSE Null

\* Mutant: every check throws the first check's message.
quoteSanityOneMessage(q) ==
  IF \/ ~IsFinite(q.bid) \/ ~IsFinite(q.ask)
     \/ q.bid.v <= 0 \/ q.ask.v <= 0
     \/ q.bid.v >= q.ask.v
  THEN Some([name |-> "Error", message |-> "Bad quote"])
  ELSE Null

\* quoteSanity: the Error it throws, or Null when it returns.
quoteSanity(q) ==
  IF ~IsFinite(q.bid) \/ ~IsFinite(q.ask)
  THEN Some([name |-> "Error", message |-> "Bad quote"])
  ELSE IF q.bid.v <= 0 \/ q.ask.v <= 0
  THEN Some([name |-> "Error", message |-> "Bid/ask must be > 0"])
  ELSE IF q.bid.v >= q.ask.v
  THEN Some([name |-> "Error", message |-> "Bid must be < ask"])
  ELSE Null

\* Mutant: the sensitivity to inventory pressure is 0.7.
DampSteep(st, s) ==
  LET invPressure == (700 * Abs(st.inv)) \div Max(1, s.inventoryLimit)
  IN  clamp(1000 - invPressure, 350, 1000)

\* damp, in thousandths
Damp(st, s) ==
  LET invPressure == (350 * Abs(st.inv)) \div Max(1, s.inventoryLimit)
  IN  clamp(1000 - invPressure, 350, 1000)

\* Mutant: the sell edge is taken from the bid up to the fair value.
ProbabilitiesSellOnRise(q, scenario, fair) ==
  LET edgeBuy == fair - q.ask.v
      edgeSell == fair - q.bid.v
      scale == Max(1000, (60 * scenario.trueValue) \div 1000)
  IN  [pBuy |-> Logistic((edgeBuy * 1000) \div scale),
       pSell |-> Logistic((edgeSell * 1000) \div scale)]

\* pBuy and pSell, in thousandths
Probabilities(q, scenario, fair) ==
  LET edgeBuy == fair - q.ask.v
      edgeSell == q.bid.v - fair
      scale == Max(1000, (60 * scenario.trueValue) \div 1000)
  IN  [pBuy |-> Logistic((edgeBuy * 1000) \div scale),
       pSell |-> Logistic((edgeSell * 1000) \div scale)]

MakeFill(side, price, qty, scenario, fair, ts) ==
  [side |-> side, price |-> price, qty |-> qty, scenario |-> scenario,
   fair |-> fair, ts |-> ts]

\* Mutant: the 0.60 threshold is not tested.
DirectionalUngated(q, scenario, qty, fair, damp, r, ts) ==
  LET p == Probabilities(q, scenario, fair)
  IN  IF Micro(r) < p.pBuy * damp
      THEN Some(MakeFill("SELL", q.ask.v, qty, scenario, fair, ts))
      ELSE IF Micro(r) < p.pSell * damp
      THEN Some(MakeFill("BUY", q.bid.v, qty, scenario, fair, ts))
      ELSE Null

\* The directional branches: the candidate fill, or Null.
Directional(q, scenario, qty, fair, damp, r, ts) ==
  LET p == Probabilities(q, scenario, fair)
  IN  IF p.pBuy * damp > 600000 /\ Micro(r) < p.pBuy * damp
      THEN Some(MakeFill("SELL", q.ask.v, qty, scenario, fair, ts))
      ELSE IF p.pSell * damp > 600000 /\ Micro(r) < p.pSell * damp
      THEN Some(MakeFill("BUY", q.bid.v, qty, scenario, fair, ts))
      ELSE Null

\* Mutant: random flow fires below 0.6 * damp.
FlowFiresOften(damp, flow) == Micro(flow) < 600 * damp

\* flow < 0.06 * damp
FlowFires(damp, flow) == Micro(flow) < 60 * damp

\* Mutant: random flow buys at the ask and sells at the bid.
RandomFlowCrossed(q, scenario, qty, fair, side, ts) ==
  IF Micro(side) < 500000
  THEN MakeFill("BUY", q.ask.v, qty, scenario, fair, ts)
  ELSE MakeFill("SELL", q.bid.v, qty, scenario, fair, ts)

\* The random-flow candidate once the flow draw fired.
RandomFlow(q, scenario, qty, fair, side, ts) ==
  IF Micro(side) < 500000
  THEN MakeFill("BUY", q.bid.v, qty, scenario, fair, ts)
  ELSE MakeFill("SELL", q.ask.v, qty, scenario, fair, ts)

\* What a call leaves behind: the engine's state and generator, and the
\* call's record (arguments, thrown error, returned fill, candidate fill
\* before the inventory check, the branch that produced it, draws consumed).
Result(st, gen, q, scenario, qty, error, fill, candidate, branch, draws) ==
  [state |-> st, rng |-> gen,
   ret |-> [q |-> q, scenario |-> scenario, qty |-> qty, error |-> error,
            fill |-> fill, candidate |-> candidate, branch |-> branch,
            draws |-> draws]]

\* The inventory after a fill
NextInv(st, fill) == st.inv + (IF fill.side = "BUY" THEN fill.qty ELSE -fill.qty)

\* Mutant: the limit is tested on the inventory before the fill.
BreachesBeforeFill(st, s, fill) == Abs(st.inv) > s.inventoryLimit

\* Mutant: a fill that reaches the limit exactly is rejected too.
BreachesAtLimit(st, s, fill) == Abs(NextInv(st, fill)) >= s.inventoryLimit

\* Whether the hard inventory limit rejects the fill.
Breaches(st, s, fill) == Abs(NextInv(st, fill)) > s.inventoryLimit

\* Mutant: cash moves by the price, whatever the quantity.
ApplyFillUnitCash(st, fill) ==
  [st EXCEPT
     !.inv = NextInv(st, fill),
     !.cash = IF fill.side = "BUY" THEN st.cash - fill.price
              ELSE st.cash + fill.price,
     !.fills = Append(st.fills, fill),
     !.lastMark = Some(fill.scenario.trueValue)]

\* Mutant: the fill is put in front of the history (unshift for push).
ApplyFillPrepend(st, fill) ==
  [st EXCEPT
     !.inv = NextInv(st, fill),
     !.cash = IF fill.side = "BUY" THEN st.cash - fill.price * fill.qty
              ELSE st.cash + fill.price * fill.qty,
     !.fills = <<fill>> \o st.fills,
     !.lastMark = Some(fill.scenario.trueValue)]

\* Mutant: lastMark takes the fill's sampled fair value.
ApplyFillMarksFair(st, fill) ==
  [st EXCEPT
     !.inv = NextInv(st, fill),
     !.cash = IF fill.side = "BUY" THEN st.cash - fill.price * fill.qty
              ELSE st.cash + fill.price * fill.qty,
     !.fills = Append(st.fills, fill),
     !.lastMark = Some(fill.fair)]

\* Mutant: a BUY takes the inventory and leaves the cash.
ApplyFillFreeBuy(st, fill) ==
  [st EXCEPT
     !.inv = NextInv(st, fill),
     !.cash = IF fill.side = "BUY" THEN st.cash
              ELSE st.cash + fill.price * fill.qty,
     !.fills = Append(st.fills, fill),
     !.lastMark = Some(fill.scenario.trueValue)]

\* The state with the fill applied to cash and inventory, pushed, and marked.
ApplyFill(st, fill) ==
  [st EXCEPT
     !.inv = NextInv(st, fill),
     !.cash = IF fill.side = "BUY" THEN st.cash - fill.price * fill.qty
              ELSE st.cash + fill.price * fill.qty,
     !.fills = Append(st.fills, fill),
     !.lastMark = Some(fill.scenario.trueValue)]

\* Mutant: lastMark is set as soon as there is a candidate, before the
\* inventory check.
SettleMarksFirst(st, s, gen, q, scenario, qty, candidate, branch, draws) ==
  IF candidate = Null
  THEN Result(st, After(gen, draws), q, scenario, qty, Null, Null, Null, branch, draws)
  ELSE IF Abs(NextInv(st, candidate[1])) > s.inventoryLimit
  THEN Result([st EXCEPT !.lastMark = Some(scenario.trueValue)], After(gen, draws),
              q, scenario, qty, Null, Null, candidate, branch, draws)
  ELSE Result([st EXCEPT
                 !.inv = NextInv(st, candidate[1]),
                 !.cash = IF candidate[1].side = "BUY"
                          THEN st.cash - candidate[1].price * candidate[1].qty
                          ELSE st.cash + candidate[1].price * candidate[1].qty,
                 !.fills = Append(st.fills, candidate[1]),
                 !.lastMark = Some(scenario.trueValue)],
              After(gen, draws), q, scenario, qty, Null, candidate, candidate,
              branch, draws)

\* From the candidate on: return null, reject at the limit, or apply.
Settle(st, s, gen, q, scenario, qty, candidate, branch, draws) ==
  IF candidate = Null
  THEN Result(st, After(gen, draws), q, scenario, qty, Null, Null, Null, branch, draws)
  ELSE IF Breaches(st, s, candidate[1])
  THEN Result(st, After(gen, draws), q, scenario, qty, Null, Null, candidate, branch, draws)
  ELSE Result(ApplyFill(st, candidate[1]), After(gen, draws), q, scenario, qty,
              Null, candidate, candidate, branch, draws)

\* Mutant: the side is drawn before the flow draw is tested.
FlowOutcomesSideFirst(st, s, gen, stream, q, scenario, qty, fair, ts) ==
  UNION {
    IF FlowFires(Damp(st, s), flow)
    THEN { Settle(st, s, gen, q, scenario, qty,
                  Some(RandomFlow(q, scenario, qty, fair, side, ts)), "flow", 5)
           : side \in stream[5] }
    ELSE { Settle(st, s, gen, q, scenario, qty, Null, "none", 5) }
    : flow \in stream[4] }

\* The random-flow block, entered when no directional fill was made.
FlowOutcomes(st, s, gen, stream, q, scenario, qty, fair, ts) ==
  UNION {
    IF FlowFires(Damp(st, s), flow)
    THEN { Settle(st, s, gen, q, scenario, qty,
                  Some(RandomFlow(q, scenario, qty, fair, side, ts)), "flow", 5)
           : side \in stream[5] }
    ELSE { Settle(st, s, gen, q, scenario, qty, Null, "none", 4) }
    : flow \in stream[4] }

\* Mutant: random flow is not tried once a directional threshold was met.
TradeNoFlowPastThreshold(st, s, gen, stream, q, scenario, qty, ts) ==
  UNION {
    LET fair == sampleFair(scenario.trueValue, u, v)
        fill == Directional(q, scenario, qty, fair, Damp(st, s), r, ts)
        p == Probabilities(q, scenario, fair)
    IN  IF fill # Null
        THEN { Settle(st, s, gen, q, scenario, qty, fill, "directional", 3) }
        ELSE IF p.pBuy * Damp(st, s) > 600000 \/ p.pSell * Damp(st, s) > 600000
        THEN { Settle(st, s, gen, q, scenario, qty, Null, "none", 3) }
        ELSE FlowOutcomes(st, s, gen, stream, q, scenario, qty, fair, ts)
    : u \in stream[1], v \in stream[2], r \in stream[3] }

\* After the sanity check: sample, decide, settle.
Trade(st, s, gen, stream, q, scenario, qty, ts) ==
  UNION {
    LET fair == sampleFair(scenario.trueValue, u, v)
        fill == Directional(q, scenario, qty, fair, Damp(st, s), r, ts)
    IN  IF fill # Null
        THEN { Settle(st, s, gen, q, scenario, qty, fill, "directional", 3) }
        ELSE FlowOutcomes(st, s, gen, stream, q, scenario, qty, fair, ts)
    : u \in stream[1], v \in stream[2], r \in stream[3] }

\* Mutant: the sanity check runs after the trade was decided and applied.
submitQuoteSanityLast(st, s, gen, stream, q, scenario, qty, ts) ==
  IF quoteSanity(q) # Null
  THEN { Result(out.state, out.rng, q, scenario, qty, quoteSanity(q), Null, Null,
                "none", out.ret.draws)
         : out \in Trade(st, s, gen, stream, q, scenario, qty, ts) }
  ELSE Trade(st, s, gen, stream, q, scenario, qty, ts)

\* Mutant: the fair value is sampled before the sanity check.
submitQuoteSampleFirst(st, s, gen, stream, q, scenario, qty, ts) ==
  IF quoteSanity(q) # Null
  THEN { Result(st, After(gen, 2), q, scenario, qty, quoteSanity(q), Null, Null,
                "none", 2) }
  ELSE Trade(st, s, gen, stream, q, scenario, qty, ts)

\* submitQuote(q, scenario, qty) on an engine with state st, settings s and
\* generator gen, whose next draws are stream, Date.now() reading ts: the
\* outcomes the call can have.
submitQuote(st, s, gen, stream, q, scenario, qty, ts) ==
  IF quoteSanity(q) # Null
  THEN { Result(st, gen, q, scenario, qty, quoteSanity(q), Null, Null, "none", 0) }
  ELSE Trade(st, s, gen, stream, q, scenario, qty, ts)

\* What a query leaves behind: the engine's state and generator, and the
\* value it returned.
Answer(st, gen, value) == [state |-> st, rng |-> gen, ret |-> value]

\* Mutant: pnl stores the mark it was asked for in lastMark.
pnlMarks(st, s, gen, mark) ==
  LET unreal == st.inv * mark
      raw == st.cash + unreal
      riskPenalty == (s.riskAversion * Abs(st.inv) * mark) \div 100000
  IN  Answer([st EXCEPT !.lastMark = Some(mark)], gen,
             [cash |-> st.cash, inv |-> st.inv, mtm |-> raw,
              riskAdj |-> raw - riskPenalty])

\* Mutant: the risk penalty is charged whatever the inventory.
pnlFlatPenalty(st, s, gen, mark) ==
  LET unreal == st.inv * mark
      raw == st.cash + unreal
      riskPenalty == (s.riskAversion * mark) \div 100000
  IN  Answer(st, gen,
             [cash |-> st.cash, inv |-> st.inv, mtm |-> raw,
              riskAdj |-> raw - riskPenalty])

\* Mutant: the risk penalty takes the inventory with its sign.
pnlSignedPenalty(st, s, gen, mark) ==
  LET unreal == st.inv * mark
      raw == st.cash + unreal
      riskPenalty == (s.riskAversion * st.inv * mark) \div 100000
  IN  Answer(st, gen,
             [cash |-> st.cash, inv |-> st.inv, mtm |-> raw,
              riskAdj |-> raw - riskPenalty])

\* pnl(mark), in thousandths: riskAversion (thousandths) * |inv| * 0.01 * mark
\* is their product over 10^5.
pnl(st, s, gen, mark) ==
  LET unreal == st.inv * mark
      raw == st.cash + unreal
      riskPenalty == (s.riskAversion * Abs(st.inv) * mark) \div 100000
  IN  Answer(st, gen,
             [cash |-> st.cash, inv |-> st.inv, mtm |-> raw,
              riskAdj |-> raw - riskPenalty])

\* 1e-6, the floor of defaultQuote's half-spread and bid, in millionths
Epsilon == 1

\* floor(a * b / c) for a >= 0 and c > 0, without forming a * b
MulDiv(a, b, c) == (a \div c) * b + ((a % c) * b) \div c

\* Mutant: defaultQuote takes a draw from the generator.
defaultQuoteDraws(st, s, gen, estimate) ==
  LET inv == st.inv
      invLimit == Max(1, s.inventoryLimit)
      invNorm == clamp(inv, -invLimit, invLimit)
      baseHalf == IF s.spreadType = "percent"
                  THEN Max(MulDiv(estimate, s.percentSpread, 2000), Epsilon)
                  ELSE Max(s.predefinedSpread \div 2, Epsilon)
      half == MulDiv(baseHalf, 1000 * invLimit + s.spreadWiden * Abs(invNorm),
                     1000 * invLimit)
      midShift == -MulDiv(half, s.invSkew * invNorm, 1000 * invLimit)
      mid == estimate + midShift
  IN  Answer(st, After(gen, 1), [bid |-> Max(Epsilon, mid - half), ask |-> mid + half])

\* Mutant: the spread is widened by spreadWiden whatever the inventory.
defaultQuoteWidensFlat(st, s, gen, estimate) ==
  LET inv == st.inv
      invLimit == Max(1, s.inventoryLimit)
      invNorm == clamp(inv, -invLimit, invLimit)
      baseHalf == IF s.spreadType = "percent"
                  THEN Max(MulDiv(estimate, s.percentSpread, 2000), Epsilon)
                  ELSE Max(s.predefinedSpread \div 2, Epsilon)
      half == MulDiv(baseHalf, 1000 * invLimit + s.spreadWiden * invLimit,
                     1000 * invLimit)
      midShift == -MulDiv(half, s.invSkew * invNorm, 1000 * invLimit)
      mid == estimate + midShift
  IN  Answer(st, gen, [bid |-> Max(Epsilon, mid - half), ask |-> mid + half])

\* Mutant: the mid is shifted with the inventory instead of against it.
defaultQuoteSkewsUp(st, s, gen, estimate) ==
  LET inv == st.inv
      invLimit == Max(1, s.inventoryLimit)
      invNorm == clamp(inv, -invLimit, invLimit)
      baseHalf == IF s.spreadType = "percent"
                  THEN Max(MulDiv(estimate, s.percentSpread, 2000), Epsilon)
                  ELSE Max(s.predefinedSpread \div 2, Epsilon)
      half == MulDiv(baseHalf, 1000 * invLimit + s.spreadWiden * Abs(invNorm),
                     1000 * invLimit)
      midShift == MulDiv(half, s.invSkew * invNorm, 1000 * invLimit)
      mid == estimate + midShift
  IN  Answer(st, gen, [bid |-> Max(Epsilon, mid - half), ask |-> mid + half])

\* defaultQuote(estimate), in millionths. invNorm is kept as its numerator
\* over invLimit, so widen is (1000 * invLimit + spreadWiden * |invNorm|) over
\* 1000 * invLimit and the skew invSkew * invNorm over 1000 * invLimit.
defaultQuote(st, s, gen, estimate) ==
  LET inv == st.inv
      invLimit == Max(1, s.inventoryLimit)
      invNorm == clamp(inv, -invLimit, invLimit)
      baseHalf == IF s.spreadType = "percent"
                  THEN Max(MulDiv(estimate, s.percentSpread, 2000), Epsilon)
                  ELSE Max(s.predefinedSpread \div 2, Epsilon)
      half == MulDiv(baseHalf, 1000 * invLimit + s.spreadWiden * Abs(invNorm),
                     1000 * invLimit)
      midShift == -MulDiv(half, s.invSkew * invNorm, 1000 * invLimit)
      mid == estimate + midShift
  IN  Answer(st, gen, [bid |-> Max(Epsilon, mid - half), ask |-> mid + half])

\* What breakEven returns: null, or a number (v thousandths).
JsNull == [type |-> "null", v |-> 0]
JsNumber(n) == [type |-> "number", v |-> n]

\* -cash / inv, rounded down to a thousandth
Quotient(a, b) == IF b > 0 THEN a \div b ELSE (-a) \div (-b)

\* Mutant: a position of one unit, long or short, counts as flat.
breakEvenNearFlat(st, gen) ==
  IF Abs(st.inv) <= 1 THEN Answer(st, gen, JsNull)
  ELSE Answer(st, gen, JsNumber(Quotient(-st.cash, st.inv)))

\* breakEven()
breakEven(st, gen) ==
  IF st.inv = 0 THEN Answer(st, gen, JsNull)
  ELSE Answer(st, gen, JsNumber(Quotient(-st.cash, st.inv)))

(***************************************************************************)
(* The state: one engine and the calls made on it; a twin engine,          *)
(* constructed with the same settings, for what two engines do alike; and  *)
(* the page that owns the engine (main.ts).                                *)
(***************************************************************************)
VARIABLES
  settings,   \* main.ts' settings object, which is also engine.settings
  state,      \* engine.state
  rng,        \* engine.rng
  now,        \* Date.now()
  calls,      \* submitQuote calls made so far
  ret,        \* the record of the last submitQuote call, Null before the first
  twin,       \* the twin engine: its state, rng, clock and last call
  query,      \* the record of the last pnl, defaultQuote or breakEven call
  screen,     \* main.ts' screen
  engine,     \* whether main.ts' engine is set (not null)
  rounds,     \* main.ts' rounds
  curScenario,  \* main.ts' curScenario, Null or Some scenario
  tEnd,       \* main.ts' tEnd
  tLeft,      \* main.ts' tLeft, in seconds
  timerHandle,  \* whether main.ts' interval is set (timerHandle not null)
  callback,   \* the function whose setInterval call set the interval
  odds,       \* main.ts' odds, Null or Some odds state
  listeners,  \* the keydown listeners on the document that have not fired
  pressed     \* the record of the keydown event just handled, else Null

\* The odds game's variables
oddsVars == <<callback, odds>>

\* The keyboard's variables
keyVars == <<listeners, pressed>>

\* main.ts' variables
page ==
  <<screen, engine, rounds, curScenario, tEnd, tLeft, timerHandle, oddsVars,
    keyVars>>

vars == <<settings, state, rng, now, calls, ret, twin, query, page>>

\* main.ts as loaded, before any click
PageInit ==
  /\ screen = "welcome"
  /\ engine = FALSE
  /\ rounds = <<>>
  /\ curScenario = Null
  /\ tEnd = 0
  /\ tLeft = 600
  /\ timerHandle = FALSE
  /\ callback = "hardReset"
  /\ odds = Null
  /\ listeners = [fresh |-> FALSE, stale |-> <<>>]
  /\ pressed = Null

\* new MarketMakingEngine(settings), twice, apart from the page
Init ==
  /\ settings \in SettingsSet
  /\ state = NewState
  /\ rng = NewRng(settings)
  /\ now = 0
  /\ calls = 0
  /\ ret = Null
  /\ twin = [state |-> NewState, rng |-> NewRng(settings), now |-> 0, ret |-> Null]
  /\ query = Null
  /\ PageInit

\* Time passes.
Tick ==
  /\ now < MaxNow
  /\ now' = now + 1
  /\ UNCHANGED <<settings, state, rng, calls, ret, twin, query, page>>

\* Time passes for the twin.
TwinTick ==
  /\ twin.now < MaxNow
  /\ twin' = [twin EXCEPT !.now = twin.now + 1]
  /\ UNCHANGED <<settings, state, rng, now, calls, ret, query, page>>

\* engine.submitQuote(q, scenario, qty)
SubmitQuote ==
  /\ calls < MaxCalls
  /\ LET stream == Stream(rng)
     IN  \E q \in Quotes, scenario \in Scenarios, qty \in Qtys :
           \E out \in submitQuote(state, settings, rng, stream, q, scenario, qty, now) :
             /\ state' = out.state
             /\ rng' = out.rng
             /\ ret' = Some(out.ret)
  /\ calls' = calls + 1
  /\ UNCHANGED <<settings, now, twin, query, page>>

\* The same call on the engine and on its twin.
SubmitBoth ==
  /\ calls < MaxCalls
  /\ LET stream == Stream(rng)
         twinStream == Stream(twin.rng)
     IN  \E q \in Quotes, scenario \in Scenarios, qty \in Qtys :
           /\ \E out \in submitQuote(state, settings, rng, stream, q, scenario, qty, now) :
                /\ state' = out.state
                /\ rng' = out.rng
                /\ ret' = Some(out.ret)
           /\ \E out \in submitQuote(twin.state, settings, twin.rng, twinStream,
                                     q, scenario, qty, twin.now) :
                twin' = [twin EXCEPT !.state = out.state, !.rng = out.rng,
                                     !.ret = Some(out.ret)]
  /\ calls' = calls + 1
  /\ UNCHANGED <<settings, now, query, page>>

\* The record of a query: the method, its argument, the state and settings
\* it was called in, and the value it returned.
Asked(op, arg, value) ==
  Some([op |-> op, arg |-> arg, at |-> state, settings |-> settings,
        value |-> value])

\* engine.pnl(mark)
Pnl ==
  /\ \E mark \in Marks :
       LET out == pnl(state, settings, rng, mark)
       IN  /\ state' = out.state
           /\ rng' = out.rng
           /\ query' = Asked("pnl", mark, out.ret)
  /\ UNCHANGED <<settings, now, calls, ret, twin, page>>

\* engine.defaultQuote(estimate)
DefaultQuote ==
  /\ \E estimate \in Estimates :
       LET out == defaultQuote(state, settings, rng, estimate)
       IN  /\ state' = out.state
           /\ rng' = out.rng
           /\ query' = Asked("defaultQuote", estimate, out.ret)
  /\ UNCHANGED <<settings, now, calls, ret, twin, page>>

\* engine.breakEven()
BreakEven ==
  /\ LET out == breakEven(state, rng)
     IN  /\ state' = out.state
         /\ rng' = out.rng
         /\ query' = Asked("breakEven", 0, out.ret)
  /\ UNCHANGED <<settings, now, calls, ret, twin, page>>

\* One engine, its calls made within one reading of the clock.
Next == SubmitQuote

Spec == Init /\ [][Next]_vars

\* Two engines fed the same calls, each at its own time.
TwinNext == Tick \/ TwinTick \/ SubmitBoth

\* Two engines constructed with a seed.
TwinInit == Init /\ settings.seed # NoSeed

TwinSpec == TwinInit /\ [][TwinNext]_vars

\* One engine, also asked for its PnL, default quote and break-even between
\* the calls.
BookNext == SubmitQuote \/ Pnl \/ DefaultQuote \/ BreakEven

\* An engine constructed with complete settings.
BookInit ==
  /\ settings \in FullSettingsSet
  /\ state = NewState
  /\ rng = NewRng(settings)
  /\ now = 0
  /\ calls = 0
  /\ ret = Null
  /\ twin = [state |-> NewState, rng |-> NewRng(settings), now |-> 0, ret |-> Null]
  /\ query = Null
  /\ PageInit

BookSpec == BookInit /\ [][BookNext]_vars


(***************************************************************************)
(* The page (main.ts): the welcome, play and end screens of the            *)
(* market-making game around one engine.                                   *)
(***************************************************************************)
\* main.ts' settings as loaded, the seed a todaySeed() value
MainSettings ==
  [durationSec |-> 600, spreadType |-> "predefined",
   predefinedSpread |-> 10000000, percentSpread |-> 50, inventoryLimit |-> 10,
   riskAversion |-> 1000, invSkew |-> 350, spreadWiden |-> 600,
   seed |-> 20250226]

\* The game lengths chosen on the welcome screen, in seconds
Durations == {300, 600}

\* The seconds in one unit of the clock now
TickSec == 600

\* startOddsGame()'s durationSec
OddsSec == 600

\* The auto-quote and risk settings chosen on the welcome screen: main.ts'
\* defaults, and the skew of 3.
PageQuoteSettings == {c \in QuoteSettings : c.spreadWiden = 600}

\* apply(): the settings object with the welcome screen's inputs written
\* into it; the seed stays.
Applied(s, durationSec, inventoryLimit, c) ==
  [durationSec |-> durationSec, spreadType |-> c.spreadType,
   predefinedSpread |-> c.predefinedSpread, percentSpread |-> c.percentSpread,
   inventoryLimit |-> inventoryLimit, riskAversion |-> c.riskAversion,
   invSkew |-> c.invSkew, spreadWiden |-> c.spreadWiden, seed |-> s.seed]

\* pickScenario(): the scenarios it can return, those of the last three
\* rounds left out unless that leaves none.
pickScenario(rs) ==
  LET used == {rs[i].scenario.id : i \in {j \in 1..Len(rs) : j > Len(rs) - 3}}
      pool == {scenario \in Scenarios : scenario.id \notin used}
  IN  IF pool # {} THEN pool ELSE Scenarios

\* Mutant: hardReset keeps the engine's ledger.
hardResetKeepsLedger(s, st, rs, clock) ==
  { [state |-> st, rng |-> NewRng(s), rounds |-> <<>>,
     curScenario |-> Some(next), tEnd |-> clock * TickSec + s.durationSec,
     tLeft |-> s.durationSec]
    : next \in pickScenario(<<>>) }

\* hardReset(), replacing the engine state st and the rounds rs at clock:
\* what engine.state, engine.rng, rounds, curScenario, tEnd and tLeft can be
\* after it (engine and timerHandle are set).
hardReset(s, st, rs, clock) ==
  { [state |-> NewState, rng |-> NewRng(s), rounds |-> <<>>,
     curScenario |-> Some(next), tEnd |-> clock * TickSec + s.durationSec,
     tLeft |-> s.durationSec]
    : next \in pickScenario(<<>>) }

\* The page as loaded; its engine is null, so state and rng are not read
\* before Start sets them.
GameInit ==
  /\ settings = MainSettings
  /\ state = NewState
  /\ rng = NewRng(settings)
  /\ now = 0
  /\ calls = 0
  /\ ret = Null
  /\ twin = [state |-> NewState, rng |-> NewRng(settings), now |-> 0, ret |-> Null]
  /\ query = Null
  /\ PageInit

\* The seed the New Seed button draws
PageSeeds == {123456789}

\* The engine as the page's calls find and leave it: its ledger, its
\* generator and the last call the page made on it.
Engine(st, gen, asked) == [state |-> st, rng |-> gen, query |-> asked]

\* The engine m after the call op(arg) answered by out, the call on record
\* with the ledger it was made on.
AskedOf(m, op, arg, out) ==
  Engine(out.state, out.rng,
         Some([op |-> op, arg |-> arg, at |-> m.state, value |-> out.ret]))

\* engine.pnl(mark) called by the page
AskPnl(m, s, mark) == AskedOf(m, "pnl", mark, pnl(m.state, s, m.rng, mark))

\* engine.breakEven() called by the page
AskBreakEven(m, s) == AskedOf(m, "breakEven", 0, breakEven(m.state, m.rng))

\* engine.defaultQuote(est) called by the page
AskDefaultQuote(m, s, estimate) ==
  AskedOf(m, "defaultQuote", estimate,
          defaultQuote(m.state, s, m.rng, estimate))

\* updateHUD(): with an engine and a scenario, pnl at the scenario's value.
updateHUD(m, s, eng, sc) ==
  IF eng /\ sc # Null THEN AskPnl(m, s, sc[1].trueValue) ELSE m

\* Mutant: the header's reading marks the ledger at the scenario's value.
headerBadgesMarks(m, s, eng, sc) ==
  IF eng /\ sc # Null
  THEN LET read == AskPnl(m, s, sc[1].trueValue)
       IN  [read EXCEPT !.state.lastMark = Some(sc[1].trueValue)]
  ELSE m

\* headerBadges(): with an engine and a scenario, pnl at the scenario's value.
headerBadges(m, s, eng, sc) ==
  IF eng /\ sc # Null THEN AskPnl(m, s, sc[1].trueValue) ELSE m

\* welcomeScreen(): the header's badges.
welcomeScreen(m, s, eng, sc) == headerBadges(m, s, eng, sc)

\* playScreen(): pnl at the scenario's value, the header's badges, and
\* breakEven(), called again for its figure when it is not null.
playScreen(m, s, eng, sc) ==
  IF ~eng \/ sc = Null THEN m
  ELSE LET first == AskPnl(m, s, sc[1].trueValue)
           header == headerBadges(first, s, eng, sc)
           even == AskBreakEven(header, s)
       IN  IF even.query[1].value = JsNull THEN even
           ELSE AskBreakEven(even, s)

\* endScreen(): pnl at the last round's true value, 0 without rounds.
endScreen(m, s, eng, rs) ==
  LET mark == IF rs = <<>> THEN 0 ELSE rs[Len(rs)].scenario.trueValue
  IN  IF eng THEN AskPnl(m, s, mark) ELSE m

\* The function render() draws the screen scr with: welcomeScreen(),
\* playScreen(), or else endScreen().
Drawn(scr) ==
  IF scr = "welcome" THEN "welcomeScreen"
  ELSE IF scr = "play" THEN "playScreen"
  ELSE "endScreen"

\* The function render() binds the handlers of the screen scr with, if any.
Bound(scr) ==
  IF scr = "welcome" THEN "bindWelcome"
  ELSE IF scr = "play" THEN "bindPlay"
  ELSE IF scr = "end" THEN "bindEnd"
  ELSE "none"

\* render(): the screen scr drawn.
render(m, s, scr, eng, sc, rs) ==
  IF Drawn(scr) = "welcomeScreen" THEN welcomeScreen(m, s, eng, sc)
  ELSE IF Drawn(scr) = "playScreen" THEN playScreen(m, s, eng, sc)
  ELSE endScreen(m, s, eng, rs)

\* The engine is left as the page's calls left it.
Left(m) == state' = m.state /\ rng' = m.rng /\ query' = m.query

\* What the welcome screen's duration, inventory-limit and number inputs
\* hold when apply() reads them: a short game at limit 1 with main.ts' risk
\* and quote numbers, or a long one at a higher limit with the skew of 3.
PageInputs ==
  { i \in [durationSec : Durations, inventoryLimit : 1..MaxInventoryLimit,
           c : PageQuoteSettings] :
      /\ (i.durationSec = 300) = (i.inventoryLimit = 1)
      /\ (i.durationSec = 300) = (i.c.riskAversion = 1000) }

\* What the estimate, bid and ask inputs of the play screen can hold: Null
\* when submit() would stop at its checks (no positive estimate, or a bid or
\* ask that is not a finite number), or Some quote beside an estimate that
\* passes (here the scenario's true value).
\* Typed here: a narrow quote, a wide one and a crossed one.
Contents ==
  {Null} \cup {Some(q) : q \in {Quote(Num(30000), Num(35000)),
                                Quote(Num(1), Num(900000)),
                                Quote(Num(100000), Num(90000))}}

\* The keys pressed
Keys == {"Enter", "r", "1"}

\* The listeners left after render() has drawn the screen scr over a play
\* screen whose inputs held c: bindPlay() adds one for the new inputs; one of
\* the replaced inputs that has not fired keeps them, as they were. A
\* listener of empty inputs is not kept: its submit() stops at the checks.
bind(ls, scr, c) ==
  [fresh |-> Bound(scr) = "bindPlay",
   stale |-> IF ls.fresh /\ c # Null THEN Append(ls.stale, c[1]) ELSE ls.stale]

\* No listener is left: once a key is pressed, all have fired.
Fired == [fresh |-> FALSE, stale |-> <<>>]

\* What submit() works on: the engine, the last call on it, the rounds and
\* the scenario, the count of submitQuote calls and whether it rendered.
World(m, last, rs, sc, n) ==
  [state |-> m.state, rng |-> m.rng, query |-> m.query, ret |-> last,
   rounds |-> rs, curScenario |-> sc, calls |-> n, rendered |-> FALSE]

\* Mutant: a rejected quote is recorded as a round and the scenario advanced.
submitRecordsRejected(w, s, scr, eng, c, clock) ==
  IF ~eng \/ w.curScenario = Null \/ c = Null THEN {w}
  ELSE LET sc == w.curScenario[1]
       IN  UNION {
             LET rs == Append(w.rounds,
                              [scenario |-> sc, estimate |-> sc.trueValue * 1000,
                               quote |-> c[1], fill |-> out.ret.fill,
                               mark |-> sc.trueValue, ts |-> clock])
             IN  { LET drawn == render(Engine(out.state, out.rng, w.query), s,
                                       scr, eng, Some(next), rs)
                   IN  [state |-> drawn.state, rng |-> drawn.rng,
                        query |-> drawn.query, ret |-> Some(out.ret),
                        rounds |-> rs, curScenario |-> Some(next),
                        calls |-> w.calls + 1, rendered |-> TRUE]
                   : next \in pickScenario(rs) }
             : out \in submitQuote(w.state, s, w.rng, Stream(w.rng), c[1], sc,
                                   1, clock) }

\* submit() on inputs holding c: without an engine or a scenario, or with
\* inputs that fail the checks, it returns; else the quote goes to the engine
\* for quantity 1 and, unless that throws (an alert, and return), the round is
\* pushed, the next scenario picked and the screen rendered.
submit(w, s, scr, eng, c, clock) ==
  IF ~eng \/ w.curScenario = Null \/ c = Null THEN {w}
  ELSE LET sc == w.curScenario[1]
       IN  UNION {
             IF out.ret.error # Null
             THEN { [w EXCEPT !.state = out.state, !.rng = out.rng,
                              !.ret = Some(out.ret), !.calls = w.calls + 1] }
             ELSE LET rs == Append(w.rounds,
                                   [scenario |-> sc,
                                    estimate |-> sc.trueValue * 1000,
                                    quote |-> c[1], fill |-> out.ret.fill,
                                    mark |-> sc.trueValue, ts |-> clock])
                  IN  { LET drawn == render(Engine(out.state, out.rng, w.query),
                                            s, scr, eng, Some(next), rs)
                        IN  [state |-> drawn.state, rng |-> drawn.rng,
                             query |-> drawn.query, ret |-> Some(out.ret),
                             rounds |-> rs, curScenario |-> Some(next),
                             calls |-> w.calls + 1, rendered |-> TRUE]
                        : next \in pickScenario(rs) }
             : out \in submitQuote(w.state, s, w.rng, Stream(w.rng), c[1], sc,
                                   1, clock) }

\* Mutant: the listener does not look at the screen.
keydownOnAnyScreen(w, s, scr, eng, key, c, clock) ==
  IF key = "Enter" THEN submit(w, s, scr, eng, c, clock) ELSE {w}

\* One keydown listener of bindPlay(), its inputs holding c: off the play
\* screen it returns; Enter calls submit(); r empties the inputs on display.
keydown(w, s, scr, eng, key, c, clock) ==
  IF scr # "play" THEN {w}
  ELSE IF key = "Enter" THEN submit(w, s, scr, eng, c, clock)
  ELSE {w}

RECURSIVE dispatch(_, _, _, _, _, _, _)
\* A keydown event on the document: the listeners, given by what their inputs
\* hold, run in the order they were added.
dispatch(w, s, scr, eng, key, held, clock) ==
  IF held = <<>> THEN {w}
  ELSE UNION { dispatch(next, s, scr, eng, key, Tail(held), clock)
               : next \in keydown(w, s, scr, eng, key, Head(held), clock) }

\* The page is left as submit() left it.
Submitted(w) ==
  /\ Left(w)
  /\ ret' = w.ret
  /\ rounds' = w.rounds
  /\ curScenario' = w.curScenario
  /\ calls' = w.calls

\* The page as submit() finds it.
Page == World(Engine(state, rng, query), ret, rounds, curScenario, calls)

\* A change of a welcome-screen number or of the duration: apply().
Apply ==
  /\ Bound(screen) = "bindWelcome"
  /\ \E i \in PageInputs :
       settings' = Applied(settings, i.durationSec, i.inventoryLimit,
                           [i.c EXCEPT !.spreadType = settings.spreadType])
  /\ UNCHANGED <<state, rng, now, calls, ret, twin, query, page>>

\* A change of the spread type's radio button: apply(); render().
ChangeSpreadType ==
  /\ Bound(screen) = "bindWelcome"
  /\ settings' = [settings EXCEPT
                    !.spreadType = IF settings.spreadType = "percent"
                                   THEN "predefined" ELSE "percent"]
  /\ Left(render(Engine(state, rng, query), settings', screen, engine,
                 curScenario, rounds))
  /\ listeners' = bind(listeners, screen, Null)
  /\ UNCHANGED <<now, calls, ret, twin, screen, engine, rounds, curScenario,
                 tEnd, tLeft, timerHandle, oddsVars>>
  /\ pressed' = Null

\* A click on New Seed: settings.seed = a random integer; render().
NewSeed ==
  /\ Bound(screen) = "bindWelcome"
  /\ \E seed \in PageSeeds : settings' = [settings EXCEPT !.seed = seed]
  /\ Left(render(Engine(state, rng, query), settings', screen, engine,
                 curScenario, rounds))
  /\ listeners' = bind(listeners, screen, Null)
  /\ UNCHANGED <<now, calls, ret, twin, screen, engine, rounds, curScenario,
                 tEnd, tLeft, timerHandle, oddsVars>>
  /\ pressed' = Null

\* A click on Market Making: apply(); screen = 'play'; hardReset(), which
\* sets the interval anew and ends in updateHUD(); render().
Start ==
  /\ Bound(screen) = "bindWelcome"
  /\ \E i \in PageInputs :
       /\ settings' = Applied(settings, i.durationSec, i.inventoryLimit,
                              [i.c EXCEPT !.spreadType = settings.spreadType])
       /\ \E out \in hardReset(settings', state, rounds, now) :
            /\ rounds' = out.rounds
            /\ curScenario' = out.curScenario
            /\ tEnd' = out.tEnd
            /\ tLeft' = out.tLeft
            /\ Left(render(updateHUD(Engine(out.state, out.rng, query),
                                     settings', TRUE, out.curScenario),
                           settings', "play", TRUE, out.curScenario,
                           out.rounds))
  /\ screen' = "play"
  /\ engine' = TRUE
  /\ timerHandle' = TRUE
  /\ callback' = "hardReset"
  /\ listeners' = bind(listeners, screen', Null)
  /\ UNCHANGED <<now, calls, ret, twin, odds>>
  /\ pressed' = Null

\* A click on Odds Game: screen = 'odds'; startOddsGame(), which sets the
\* interval anew; render().
StartOdds ==
  /\ Bound(screen) = "bindWelcome"
  /\ screen' = "odds"
  /\ odds' = Some([balance |-> 1000, round |-> 1,
                   tEnd |-> now * TickSec + OddsSec, tLeft |-> OddsSec])
  /\ timerHandle' = TRUE
  /\ callback' = "startOddsGame"
  /\ Left(render(Engine(state, rng, query), settings, screen', engine,
                 curScenario, rounds))
  /\ listeners' = bind(listeners, screen', Null)
  /\ UNCHANGED <<settings, now, calls, ret, twin, engine, rounds, curScenario,
                 tEnd, tLeft>>
  /\ pressed' = Null

\* A click on Auto-quote with a positive estimate typed on the keyboard
\* (without one the handler alerts and returns): the keys pressed have fired
\* the listeners, and defaultQuote(est) goes into the bid and ask inputs. The
\* estimate typed here is the scenario's true value, in millionths.
Auto ==
  /\ Bound(screen) = "bindPlay"
  /\ engine
  /\ curScenario # Null
  /\ Left(AskDefaultQuote(Engine(state, rng, query), settings,
                          curScenario[1].trueValue * 1000))
  /\ listeners' = Fired
  /\ UNCHANGED <<settings, now, calls, ret, twin, screen, engine, rounds,
                 curScenario, tEnd, tLeft, timerHandle, oddsVars>>
  /\ pressed' = Null

\* A click on Submit Quote with the estimate, bid and ask typed on the
\* keyboard: the keys pressed have fired the listeners, and submit() runs on
\* what was typed.
Submit ==
  /\ Bound(screen) = "bindPlay"
  /\ engine
  /\ curScenario # Null
  /\ calls < MaxCalls
  /\ \E c \in Contents \ {Null} :
       \E w \in submit(Page, settings, screen, engine, c, now) :
         /\ Submitted(w)
         /\ listeners' = IF w.rendered THEN bind(Fired, screen, Null) ELSE Fired
  /\ UNCHANGED <<settings, now, twin, screen, engine, tEnd, tLeft, timerHandle,
                 oddsVars>>
  /\ pressed' = Null

\* A click on Submit Quote with the inputs filled by the pointer alone (the
\* number inputs' arrows, or a paste): no key is pressed, and submit() runs
\* on what they hold.
PointSubmit ==
  /\ Bound(screen) = "bindPlay"
  /\ engine
  /\ curScenario # Null
  /\ calls < MaxCalls
  /\ \E c \in Contents \ {Null} :
       \E w \in submit(Page, settings, screen, engine, c, now) :
         /\ Submitted(w)
         /\ listeners' = IF w.rendered THEN bind(listeners, screen, c)
                         ELSE listeners
  /\ UNCHANGED <<settings, now, twin, screen, engine, tEnd, tLeft, timerHandle,
                 oddsVars>>
  /\ pressed' = Null

\* A click on Skip with the inputs empty: the next scenario picked, and
\* render().
Skip ==
  /\ Bound(screen) = "bindPlay"
  /\ \E next \in pickScenario(rounds) :
       /\ curScenario' = Some(next)
       /\ Left(render(Engine(state, rng, query), settings, screen, engine,
                      curScenario', rounds))
  /\ listeners' = bind(listeners, screen, Null)
  /\ UNCHANGED <<settings, now, calls, ret, twin, screen, engine, rounds,
                 tEnd, tLeft, timerHandle, oddsVars>>
  /\ pressed' = Null

\* A click on Skip with the inputs filled by the pointer alone.
PointSkip ==
  /\ Bound(screen) = "bindPlay"
  /\ listeners.fresh
  /\ Len(listeners.stale) < MaxStale
  /\ \E next \in pickScenario(rounds) :
       /\ curScenario' = Some(next)
       /\ Left(render(Engine(state, rng, query), settings, screen, engine,
                      curScenario', rounds))
  /\ \E c \in Contents \ {Null} : listeners' = bind(listeners, screen, c)
  /\ UNCHANGED <<settings, now, calls, ret, twin, screen, engine, rounds,
                 tEnd, tLeft, timerHandle, oddsVars>>
  /\ pressed' = Null

\* A key pressed, on any screen; the inputs on display hold c (looked at
\* only for Enter on the play screen): every listener that has not fired
\* runs, once, and is removed; one added by a render() on the way stays.
KeyDown ==
  \E key \in Keys :
    \E c \in IF key = "Enter" /\ screen = "play" THEN Contents ELSE {Null} :
      LET held == [i \in 1..Len(listeners.stale) |-> Some(listeners.stale[i])]
                  \o (IF listeners.fresh THEN <<c>> ELSE <<>>)
          calling == IF screen = "play" /\ key = "Enter" /\ engine
                        /\ curScenario # Null
                     THEN Cardinality({i \in 1..Len(held) : held[i] # Null})
                     ELSE 0
      IN  /\ calls + calling <= MaxCalls
          /\ \E w \in dispatch(Page, settings, screen, engine, key, held, now) :
               /\ Submitted(w)
               /\ listeners' = IF w.rendered THEN bind(Fired, screen, Null)
                               ELSE Fired
               /\ pressed' = Some([key |-> key, typed |-> c,
                                   fresh |-> listeners.fresh,
                                   stale |-> Len(listeners.stale),
                                   calls |-> w.calls - calls,
                                   rounds |-> Len(w.rounds) - Len(rounds)])
          /\ UNCHANGED <<settings, now, twin, screen, engine, tEnd, tLeft,
                         timerHandle, oddsVars>>

\* A click on End: stopGame(), which clears the interval and renders the end
\* screen.
End ==
  /\ Bound(screen) = "bindPlay"
  /\ timerHandle' = FALSE
  /\ screen' = "end"
  /\ Left(render(Engine(state, rng, query), settings, screen', engine,
                 curScenario, rounds))
  /\ listeners' = bind(listeners, screen', Null)
  /\ UNCHANGED <<settings, now, calls, ret, twin, engine, rounds, curScenario,
                 tEnd, tLeft, oddsVars>>
  /\ pressed' = Null

\* Mutant: at 0 the callback goes on updating the HUD.
TimerFiresHudOnly ==
  /\ timerHandle
  /\ callback = "hardReset"
  /\ tLeft' = Max(0, tEnd - now * TickSec)
  /\ Left(updateHUD(Engine(state, rng, query), settings, engine, curScenario))
  /\ UNCHANGED <<settings, now, calls, ret, twin, screen, engine, rounds,
                 curScenario, tEnd, timerHandle, oddsVars, listeners>>
  /\ pressed' = Null

\* The callback of hardReset()'s interval: tLeft is read off the clock; at 0
\* stopGame(), otherwise updateHUD().
TimerFires ==
  /\ timerHandle
  /\ callback = "hardReset"
  /\ tLeft' = Max(0, tEnd - now * TickSec)
  /\ IF tLeft' <= 0
     THEN /\ timerHandle' = FALSE
          /\ screen' = "end"
          /\ Left(render(Engine(state, rng, query), settings, screen', engine,
                         curScenario, rounds))
          /\ listeners' = bind(listeners, screen', Null)
     ELSE /\ UNCHANGED <<timerHandle, screen, listeners>>
          /\ Left(updateHUD(Engine(state, rng, query), settings, engine,
                            curScenario))
  /\ UNCHANGED <<settings, now, calls, ret, twin, engine, rounds, curScenario,
                 tEnd, oddsVars>>
  /\ pressed' = Null

\* The callback of startOddsGame()'s interval: without odds it returns; else
\* odds.tLeft is read off the clock, and at 0 screen = 'end' and render(),
\* the interval left set.
OddsTimerFires ==
  /\ timerHandle
  /\ callback = "startOddsGame"
  /\ odds # Null
  /\ odds' = Some([odds[1] EXCEPT
                     !.tLeft = Max(0, odds[1].tEnd - now * TickSec)])
  /\ IF odds'[1].tLeft <= 0
     THEN /\ screen' = "end"
          /\ Left(render(Engine(state, rng, query), settings, screen', engine,
                         curScenario, rounds))
          /\ listeners' = bind(listeners, screen', Null)
     ELSE UNCHANGED <<screen, state, rng, query, listeners>>
  /\ UNCHANGED <<settings, now, calls, ret, twin, engine, rounds, curScenario,
                 tEnd, tLeft, timerHandle, callback>>
  /\ pressed' = Null

\* A click on the end screen's button: back to the welcome screen, rendered.
Again ==
  /\ Bound(screen) = "bindEnd"
  /\ screen' = "welcome"
  /\ Left(render(Engine(state, rng, query), settings, screen', engine,
                 curScenario, rounds))
  /\ listeners' = bind(listeners, screen', Null)
  /\ UNCHANGED <<settings, now, calls, ret, twin, engine, rounds, curScenario,
                 tEnd, tLeft, timerHandle, oddsVars>>
  /\ pressed' = Null

GameNext ==
  \/ Tick \/ Apply \/ ChangeSpreadType \/ NewSeed \/ Start \/ StartOdds
  \/ Auto \/ Submit \/ Skip \/ End \/ TimerFires \/ OddsTimerFires \/ Again

GameSpec == GameInit /\ [][GameNext]_vars

\* The page with a keyboard and a pointer, without its clock and its welcome
\* inputs: the clicks of the play and end screens and the keys pressed.
KeyNext ==
  \/ Start \/ Submit \/ PointSubmit \/ Skip \/ PointSkip \/ KeyDown \/ End
  \/ Again

KeySpec == GameInit /\ [][KeyNext]_vars

\* The page while time advances and the game's interval keeps firing: the
\* clock is not held back for ever, and setInterval calls its callback again
\* and again. The welcome screen's inputs and Auto-quote are left out.
LiveNext ==
  \/ Tick \/ Start \/ StartOdds \/ Submit \/ Skip \/ End \/ TimerFires
  \/ OddsTimerFires \/ Again

LiveSpec ==
  GameInit /\ [][LiveNext]_vars /\ WF_vars(Tick) /\ WF_vars(TimerFires)

(***************************************************************************)
(* Properties.                                                             *)
(***************************************************************************)
\* A step that is a submitQuote call on the engine.
CallStep == calls' = calls + 1

\* The sanity contract of a quote, as the specification words it.
ValidQuote(q) ==
  /\ IsFinite(q.bid) /\ IsFinite(q.ask)
  /\ q.bid.v > 0 /\ q.ask.v > 0
  /\ q.bid.v < q.ask.v

Threw(r) == r.error # Null
ReturnedFill(r) == r.error = Null /\ r.fill # Null
ReturnedNull(r) == r.error = Null /\ r.fill = Null

\* C1: after any sequence of submitQuote calls, |state.inv| <= inventoryLimit.
InventoryWithinLimit == Abs(state.inv) <= settings.inventoryLimit

\* C1's case: a candidate fill was turned away with the inventory at the limit.
InventoryAtLimitRejected ==
  /\ ret # Null
  /\ ret[1].candidate # Null /\ ret[1].fill = Null
  /\ Abs(state.inv) = settings.inventoryLimit

\* C2: submitQuote throws exactly when the quote is invalid; a valid quote
\* gets a Fill or null.
ThrowsIffInvalid ==
  ret # Null =>
    /\ Threw(ret[1]) <=> ~ValidQuote(ret[1].q)
    /\ ValidQuote(ret[1].q) => (ReturnedFill(ret[1]) \/ ReturnedNull(ret[1]))

\* C2's case: a crossed quote thrown out by an engine that already traded.
CrossedQuoteThrown ==
  /\ ret # Null
  /\ Threw(ret[1])
  /\ IsFinite(ret[1].q.bid) /\ IsFinite(ret[1].q.ask)
  /\ ret[1].q.bid.v >= ret[1].q.ask.v /\ ret[1].q.ask.v > 0
  /\ state.fills # <<>>

\* C3: a call that throws leaves cash, inventory, fills and lastMark as they
\* were.
InvalidQuoteLeavesState ==
  [][(CallStep /\ Threw(ret'[1])) => state' = state]_vars

\* C3's case: a throw on an engine holding inventory, cash, a fill and a mark.
ThrownWithLedger ==
  /\ ret # Null
  /\ Threw(ret[1])
  /\ state.inv # 0 /\ state.cash # 0 /\ state.lastMark # Null

\* C4 as claimed: every sanity violation is an error of the kind InvalidQuote.
ErrorKindInvalidQuote ==
  (ret # Null /\ Threw(ret[1])) => ret[1].error[1].name = "InvalidQuote"

\* The message the source gives for the first check a quote fails.
ExpectedMessage(q) ==
  IF ~IsFinite(q.bid) \/ ~IsFinite(q.ask) THEN "Bad quote"
  ELSE IF q.bid.v <= 0 \/ q.ask.v <= 0 THEN "Bid/ask must be > 0"
  ELSE "Bid must be < ask"

\* C4, amended: every sanity violation is a plain Error, told apart only by
\* its message, which names the first check that failed.
ErrorIsPlainWithMessage ==
  (ret # Null /\ Threw(ret[1])) =>
    /\ ret[1].error[1].name = "Error"
    /\ ret[1].error[1].message = ExpectedMessage(ret[1].q)

\* C4's case: bid = 100, ask = 90 was submitted and thrown out.
Bid100Ask90Thrown ==
  /\ ret # Null
  /\ ret[1].q = Quote(Num(100000), Num(90000))
  /\ Threw(ret[1])

\* C5: a call that throws consumes no draw and leaves the generator, like
\* the state, where it was, so later calls do what they would have done
\* without it.
InvalidQuoteDrawsNothing ==
  [][(CallStep /\ Threw(ret'[1])) =>
       (ret'[1].draws = 0 /\ rng' = rng /\ state' = state)]_vars

\* C5's case: a throw on a seeded engine whose generator has already run.
ThrownMidStream ==
  /\ ret # Null
  /\ Threw(ret[1])
  /\ rng.seeded /\ rng.a # ToUint32(settings.seed)

\* C6: a returned Fill moved cash and inventory one way or the other, by
\* price * qty and qty, and was pushed once.
BoughtBy(f) ==
  /\ f.side = "BUY"
  /\ state'.cash = state.cash - f.price * f.qty
  /\ state'.inv = state.inv + f.qty
SoldBy(f) ==
  /\ f.side = "SELL"
  /\ state'.cash = state.cash + f.price * f.qty
  /\ state'.inv = state.inv - f.qty
FillMovesLedgerOnce ==
  [][(CallStep /\ ReturnedFill(ret'[1])) =>
       LET f == ret'[1].fill[1]
       IN  /\ (BoughtBy(f) \/ SoldBy(f)) /\ ~(BoughtBy(f) /\ SoldBy(f))
           /\ state'.fills = Append(state.fills, f)]_vars

\* C6's case: a SELL of two units returned by an engine that had bought.
SoldTwoAfterBuying ==
  /\ ret # Null
  /\ ReturnedFill(ret[1])
  /\ ret[1].fill[1].side = "SELL" /\ ret[1].fill[1].qty = 2
  /\ Len(state.fills) = 2 /\ state.fills[1].side = "BUY"

\* C7: the earlier fills stay as a prefix; the length grows by one on a
\* returned Fill and not at all otherwise.
FillsAppendOnly ==
  [][/\ Len(state'.fills) >= Len(state.fills)
     /\ SubSeq(state'.fills, 1, Len(state.fills)) = state.fills
     /\ CallStep =>
          Len(state'.fills) =
            Len(state.fills) + (IF ReturnedFill(ret'[1]) THEN 1 ELSE 0)]_vars

\* C7's case: a second, different fill stands behind the first.
TwoFillsInOrder ==
  /\ Len(state.fills) = 2
  /\ state.fills[1] # state.fills[2]
  /\ ret # Null /\ ret[1].fill = Some(state.fills[2])

\* C8: a candidate is turned away exactly when it would take |inventory| past
\* the limit, and then nothing of it is filled; an accepted Fill is the
\* candidate, for the quantity asked; a candidate that brings the inventory
\* no further from zero is never turned away.
CandidateInv(st, f) == st.inv + (IF f.side = "BUY" THEN f.qty ELSE -f.qty)
RejectedIffBreach ==
  [][(CallStep /\ ret'[1].candidate # Null) =>
       LET f == ret'[1].candidate[1]
           breach == Abs(CandidateInv(state, f)) > settings.inventoryLimit
       IN  /\ (ret'[1].fill = Null) <=> breach
           /\ breach => state' = state
           /\ ~breach => (ret'[1].fill = Some(f) /\ f.qty = ret'[1].qty
                          /\ state'.inv = CandidateInv(state, f))
           /\ Abs(CandidateInv(state, f)) <= Abs(state.inv) => ret'[1].fill # Null]_vars

\* C8's case: two units were turned away although one would have fitted.
RejectedWhereOneFits ==
  /\ ret # Null
  /\ ret[1].candidate # Null /\ ret[1].fill = Null
  /\ ret[1].qty = 2
  /\ Abs(state.inv + (IF ret[1].candidate[1].side = "BUY" THEN 1 ELSE -1))
       <= settings.inventoryLimit

\* C9: a valid quote that gets null raised no error and changed nothing.
NoFillLeavesState ==
  [][(CallStep /\ ValidQuote(ret'[1].q) /\ ret'[1].fill = Null) =>
       (ret'[1].error = Null /\ state' = state)]_vars

\* C9's case: null for want of a candidate, on an engine that has traded.
NullWithoutCandidate ==
  /\ ret # Null
  /\ ReturnedNull(ret[1]) /\ ret[1].candidate = Null
  /\ state.fills # <<>>

\* C10 as claimed: the two engines' states agree in every field of every
\* fill, the timestamp included.
TwinsIdentical == state = twin.state

\* A fill without its timestamp, a state without its fills' timestamps.
Untimed(f) == [side |-> f.side, price |-> f.price, qty |-> f.qty,
               scenario |-> f.scenario, fair |-> f.fair]
UntimedState(st) ==
  [st EXCEPT !.fills = [i \in 1..Len(st.fills) |-> Untimed(st.fills[i])]]
UntimedRet(r) ==
  IF r = Null THEN Null
  ELSE Some([r[1] EXCEPT
               !.fill = IF r[1].fill = Null THEN Null ELSE Some(Untimed(r[1].fill[1])),
               !.candidate = IF r[1].candidate = Null THEN Null
                             ELSE Some(Untimed(r[1].candidate[1]))])

\* C10, amended: with a seed, the two engines return the same and end in the
\* same state and generator, but for the fills' timestamps.
TwinsIdenticalButTs ==
  /\ UntimedState(state) = UntimedState(twin.state)
  /\ rng = twin.rng
  /\ UntimedRet(ret) = UntimedRet(twin.ret)

\* C10's case: both engines hold two fills, stamped at different times.
TwinsFilledAtOtherTimes ==
  /\ Len(state.fills) = 2 /\ Len(twin.state.fills) = 2
  /\ state.fills[2].ts # twin.state.fills[2].ts

(***************************************************************************)
(* Properties of pnl, breakEven and defaultQuote (BookSpec).               *)
(***************************************************************************)
\* A step that is a call of the query op on the engine.
QueryStep(op) == calls' = calls /\ query' # Null /\ query'[1].op = op

\* The last query was a call of op.
LastQuery(op) == query # Null /\ query[1].op = op

\* C11: pnl(mark) changes neither the ledger (cash, inventory, fills,
\* lastMark: the engine's state) nor the generator, and a call made with the
\* state, settings and mark of the call before it returns the same result.
PnlIsPure ==
  [][QueryStep("pnl") =>
       /\ state' = state
       /\ rng' = rng
       /\ (/\ LastQuery("pnl")
           /\ query[1].arg = query'[1].arg
           /\ query[1].at = query'[1].at
           /\ query[1].settings = query'[1].settings)
          => query'[1].value = query[1].value]_vars

\* C11's case: pnl was asked of an engine holding a position, which is still
\* the engine's state.
PnlAskedWithPosition ==
  /\ LastQuery("pnl")
  /\ query[1].at.inv # 0
  /\ query[1].arg # 0
  /\ state = query[1].at

\* C12: with zero fills, pnl(mark) returns cash = 0, inv = 0, mtm = 0 and
\* riskAdj = 0, for every mark and every riskAversion.
PnlZeroWithoutFills ==
  (LastQuery("pnl") /\ query[1].at.fills = <<>>)
    => query[1].value = [cash |-> 0, inv |-> 0, mtm |-> 0, riskAdj |-> 0]

\* C12's case: pnl asked at a negative mark, under a riskAversion of 2.5, of
\* an engine whose calls made no fill.
PnlAskedWithoutFills ==
  /\ LastQuery("pnl")
  /\ query[1].at.fills = <<>>
  /\ query[1].arg < 0
  /\ query[1].settings.riskAversion = 2500
  /\ calls > 0

\* C13: pnl(mark) returns mtm = cash + inv * mark and riskAdj = mtm -
\* riskAversion * |inv| * 0.01 * mark (riskAversion in thousandths: the
\* product over 10^5); so riskAdj <= mtm when mark >= 0 and riskAversion >= 0,
\* and riskAdj = mtm when inv = 0.
PnlFormula ==
  LastQuery("pnl") =>
    LET at == query[1].at
        mark == query[1].arg
        riskAversion == query[1].settings.riskAversion
        value == query[1].value
    IN  /\ value.cash = at.cash
        /\ value.inv = at.inv
        /\ value.mtm = at.cash + at.inv * mark
        /\ (value.mtm - value.riskAdj) * 100000 = riskAversion * Abs(at.inv) * mark
        /\ (mark >= 0 /\ riskAversion >= 0) => value.riskAdj <= value.mtm
        /\ at.inv = 0 => value.riskAdj = value.mtm

\* C13's case: a short position marked at a positive mark under a positive
\* riskAversion, penalised.
PnlShortPenalised ==
  /\ LastQuery("pnl")
  /\ query[1].at.inv < 0
  /\ query[1].arg > 0
  /\ query[1].settings.riskAversion > 0
  /\ query[1].value.riskAdj < query[1].value.mtm

\* What a call that returns nothing evaluates to.
JsUndefined == [type |-> "undefined", v |-> 0]

\* -cash / inv to the thousandth below: the mark at which the position is
\* worth what it cost.
IsBreakEven(at, value) ==
  /\ value.type = "number"
  /\ Abs(value.v * at.inv + at.cash) < Abs(at.inv)

\* C14 as stated: breakEven() returns undefined if and only if inventory is
\* exactly 0, and otherwise returns -cash / inventory.
BreakEvenUndefinedIffFlat ==
  LastQuery("breakEven") =>
    /\ query[1].value = JsUndefined <=> query[1].at.inv = 0
    /\ query[1].at.inv # 0 => IsBreakEven(query[1].at, query[1].value)

\* C14, amended: breakEven() returns null if and only if inventory is
\* exactly 0, and otherwise returns -cash / inventory.
BreakEvenNullIffFlat ==
  LastQuery("breakEven") =>
    /\ query[1].value = JsNull <=> query[1].at.inv = 0
    /\ query[1].at.inv # 0 => IsBreakEven(query[1].at, query[1].value)

\* C14's case: breakEven asked of an engine that traded back to inventory 0.
BreakEvenAskedFlatAgain ==
  /\ LastQuery("breakEven")
  /\ query[1].at.inv = 0
  /\ query[1].at.fills # <<>>
  /\ query[1].at.cash # 0
  /\ query[1].value = JsNull

\* C15 as stated: defaultQuote(estimate) returns bid < ask and bid > 0 for
\* every estimate > 0, every reachable inventory, both spread modes and every
\* admissible setting.
DefaultQuoteIsValid ==
  LastQuery("defaultQuote") =>
    /\ query[1].value.bid < query[1].value.ask
    /\ query[1].value.bid > 0

\* The base half-spread as C16 words it, doubled: predefinedSpread in
\* predefined mode, estimate * percentSpread in percent mode.
TwiceStatedHalf(s, estimate) ==
  IF s.spreadType = "percent"
  THEN 2 * MulDiv(estimate, s.percentSpread, 2000)
  ELSE s.predefinedSpread

\* C16 as stated: at inventory 0, bid = estimate - h and ask = estimate + h
\* for h = predefinedSpread / 2 or estimate * percentSpread / 2, whatever
\* invSkew and spreadWiden are, provided estimate - h is above the bid floor.
DefaultQuoteFlatStated ==
  (LastQuery("defaultQuote") /\ query[1].at.inv = 0) =>
    LET estimate == query[1].arg
        twice == TwiceStatedHalf(query[1].settings, estimate)
    IN  2 * estimate - twice > 2 * Epsilon =>
          /\ 2 * query[1].value.bid = 2 * estimate - twice
          /\ 2 * query[1].value.ask = 2 * estimate + twice

\* The base half-spread with its floor of 1e-6.
FlooredHalf(s, estimate) ==
  IF s.spreadType = "percent"
  THEN Max(MulDiv(estimate, s.percentSpread, 2000), Epsilon)
  ELSE Max(s.predefinedSpread \div 2, Epsilon)

\* C16, amended: at inventory 0, bid = estimate - h and ask = estimate + h for
\* h = max(predefinedSpread / 2, 1e-6) or max(estimate * percentSpread / 2,
\* 1e-6), whatever invSkew and spreadWiden are, provided estimate - h is
\* above the bid floor; predefined spread 10 and estimate 100 give 95 and 105.
DefaultQuoteFlat ==
  (LastQuery("defaultQuote") /\ query[1].at.inv = 0) =>
    LET estimate == query[1].arg
        s == query[1].settings
        h == FlooredHalf(s, estimate)
    IN  /\ estimate - h > Epsilon =>
              query[1].value = [bid |-> estimate - h, ask |-> estimate + h]
        /\ (/\ estimate = 100000000
            /\ s.spreadType = "predefined"
            /\ s.predefinedSpread = 10000000)
           => query[1].value = [bid |-> 95000000, ask |-> 105000000]

\* C16's case: estimate 100 under a predefined spread of 10 and a skew of 3,
\* at an inventory that is 0 again after two fills: 95 and 105.
DefaultQuote95And105 ==
  /\ LastQuery("defaultQuote")
  /\ query[1].at.inv = 0
  /\ query[1].at.fills # <<>>
  /\ query[1].arg = 100000000
  /\ query[1].settings.invSkew = 3000
  /\ query[1].value = [bid |-> 95000000, ask |-> 105000000]

\* C17: defaultQuote changes neither cash, inventory, fills nor lastMark (the
\* engine's state), nor the generator, nor the settings: what later
\* submitQuote calls do is a function of these alone.
DefaultQuoteReadOnly ==
  [][QueryStep("defaultQuote") =>
       /\ state' = state
       /\ rng' = rng
       /\ settings' = settings]_vars

\* C17's case: defaultQuote was asked of an engine holding a position, and a
\* later submitQuote call filled.
DefaultQuoteThenFill ==
  /\ LastQuery("defaultQuote")
  /\ query[1].at.inv # 0
  /\ Len(state.fills) > Len(query[1].at.fills)
  /\ ret # Null
  /\ ret[1].fill # Null

(***************************************************************************)
(* Properties of the fill rule, continued (Spec).                          *)
(***************************************************************************)
\* The widest quote submitted: bid 0.001, ask 900.
WideQuote == Quote(Num(1), Num(900000))

\* C18: a call with the extremely wide quote makes no directional fill; its
\* candidate fill, if any, has its fair value between bid and ask, was made
\* by the random-flow branch, and a flow draw below 0.06 * damp was there to
\* be taken.
WideQuoteFillsFromFlowOnly ==
  [][(CallStep /\ ret'[1].q = WideQuote) =>
       /\ ret'[1].branch # "directional"
       /\ ret'[1].candidate # Null =>
            /\ ret'[1].branch = "flow"
            /\ ret'[1].draws = 5
            /\ WideQuote.bid.v < ret'[1].candidate[1].fair
            /\ ret'[1].candidate[1].fair < WideQuote.ask.v
            /\ \E flow \in Draws(rng, 4) : Micro(flow) < 60 * Damp(state, settings)]_vars

\* C18's case: a seeded engine filled the wide quote, and on a later call
\* with the wide quote it did not.
WideQuoteFilledThenNot ==
  /\ settings.seed # NoSeed
  /\ state.fills # <<>>
  /\ state.fills[1].price \in {WideQuote.bid.v, WideQuote.ask.v}
  /\ ret # Null
  /\ ret[1].q = WideQuote
  /\ ret[1].candidate = Null
  /\ ret[1].branch = "none"

\* Null for an empty history, else the trueValue of the last fill's scenario.
LastMarkOf(st) ==
  IF st.fills = <<>> THEN Null
  ELSE Some(st.fills[Len(st.fills)].scenario.trueValue)

\* C19: lastMark is null exactly when the fill history is empty, and
\* otherwise the trueValue of the scenario of the most recent fill; a call
\* that returns no fill or throws leaves lastMark as it was.
LastMarkIsLastFillsTrueValue ==
  [][/\ state.lastMark = LastMarkOf(state)
     /\ state'.lastMark = LastMarkOf(state')
     /\ (CallStep /\ ~ReturnedFill(ret'[1])) => state'.lastMark = state.lastMark]_vars

\* C19's case: after a fill, a call on the other scenario whose candidate
\* fill was turned away, lastMark still the earlier fill's trueValue.
LastMarkKeptOverRejection ==
  /\ state.fills # <<>>
  /\ ret # Null
  /\ ret[1].fill = Null
  /\ ret[1].candidate # Null
  /\ ret[1].scenario # state.fills[Len(state.fills)].scenario
  /\ state.lastMark = Some(state.fills[Len(state.fills)].scenario.trueValue)

(***************************************************************************)
(* Properties of the page (GameSpec).                                      *)
(***************************************************************************)
\* C20: whenever Start takes the page from the welcome screen to play, play
\* begins with an engine whose cash is 0, inventory 0, fill history empty and
\* lastMark null, and with no rounds, whatever the session before left.
StartBeginsFresh ==
  [][(screen = "welcome" /\ screen' = "play") =>
       /\ engine'
       /\ state'.cash = 0
       /\ state'.inv = 0
       /\ state'.fills = <<>>
       /\ state'.lastMark = Null
       /\ rounds' = <<>>]_vars

\* C20's case: play has begun anew, after a session whose last call filled.
RestartedAfterFill ==
  /\ screen = "play"
  /\ rounds = <<>>
  /\ state = NewState
  /\ ret # Null
  /\ ret[1].fill # Null

(***************************************************************************)
(* Properties of the fill rule: prices, thresholds and draws (Spec).       *)
(***************************************************************************)
\* C23: every candidate fill is priced on the quote for its side (BUY at the
\* submitted bid, SELL at the submitted ask), whichever branch made it; a
\* directional fill is a SELL with the fair value above the ask or a BUY with
\* the fair value below the bid; a returned fill is the candidate.
FillAtOwnQuote ==
  (ret # Null /\ ret[1].candidate # Null) =>
    LET f == ret[1].candidate[1]
        q == ret[1].q
    IN  /\ f.side \in {"BUY", "SELL"}
        /\ f.side = "BUY" => f.price = q.bid.v
        /\ f.side = "SELL" => f.price = q.ask.v
        /\ ret[1].branch \in {"directional", "flow"}
        /\ ret[1].branch = "directional" =>
             \/ f.side = "SELL" /\ f.fair > q.ask.v
             \/ f.side = "BUY" /\ f.fair < q.bid.v
        /\ ret[1].fill \in {Null, ret[1].candidate}

\* C23's case: random flow sold at the ask of a quote whose bid the fair
\* value was below.
FlowSoldAtAsk ==
  /\ ret # Null
  /\ ret[1].fill # Null
  /\ ret[1].branch = "flow"
  /\ ret[1].fill[1].side = "SELL"
  /\ ret[1].fill[1].price = ret[1].q.ask.v
  /\ ret[1].fill[1].fair < ret[1].q.bid.v

\* The damped probabilities, in millionths, of a call with quote q on
\* scenario at fair value fair, in the engine's present state.
Damped(q, scenario, fair) ==
  LET p == Probabilities(q, scenario, fair)
      damp == Damp(state, settings)
  IN  [buy |-> p.pBuy * damp, sell |-> p.pSell * damp]

\* C24: a call makes a directional fill on a side only if that side's damped
\* probability is above 0.60 and a draw r below it was there to be taken.
DirectionalOnlyPastThreshold ==
  [][(CallStep /\ ret'[1].branch = "directional") =>
       LET f == ret'[1].candidate[1]
           d == Damped(ret'[1].q, ret'[1].scenario, f.fair)
           mine == IF f.side = "SELL" THEN d.buy ELSE d.sell
       IN  /\ mine > 600000
           /\ \E r \in Draws(rng, 3) : Micro(r) < mine]_vars

\* C24's case: the buy side was past the threshold and no directional fill
\* was made: the draw r was not below the damped probability. (The candidate
\* that random flow then made was turned away, so the state is the call's.)
PastThresholdWithoutFill ==
  /\ ret # Null
  /\ ret[1].branch = "flow"
  /\ ret[1].fill = Null
  /\ Damped(ret[1].q, ret[1].scenario, ret[1].candidate[1].fair).buy > 600000

\* The quotes of the model that submitQuote accepts.
ValidQuotes == {quote \in Quotes : ValidQuote(quote)}

\* C25: for every valid quote and every fair value the next call can sample,
\* the buy-side and the sell-side thresholds are not both met.
ThresholdsNeverBothMet ==
  [](LET us == Draws(rng, 1)
         vs == Draws(rng, 2)
         damp == Damp(state, settings)
     IN  \A scenario \in Scenarios :
           \A fair \in {sampleFair(scenario.trueValue, u, v) : u \in us, v \in vs} :
             \A q \in ValidQuotes :
               LET p == Probabilities(q, scenario, fair)
               IN  ~(p.pBuy * damp > 600000 /\ p.pSell * damp > 600000))

\* C25's case: the sell-side threshold was met, and the engine bought.
DirectionalBuyFilled ==
  /\ ret # Null
  /\ ret[1].fill # Null
  /\ ret[1].branch = "directional"
  /\ ret[1].fill[1].side = "BUY"
  /\ Probabilities(ret[1].q, ret[1].scenario, ret[1].fill[1].fair).pSell > 600

\* C26: every call that made no directional fill took the flow draw, past a
\* directional threshold or not; it has a candidate fill exactly when a flow
\* draw below 0.06 * damp was there to be taken, and that candidate is a BUY
\* exactly when the side draw was below 0.5, whatever the fair value.
FlowTriedAfterNoDirectional ==
  [][(CallStep /\ ~Threw(ret'[1]) /\ ret'[1].branch # "directional") =>
       /\ ret'[1].draws >= 4
       /\ ret'[1].candidate # Null =>
            /\ ret'[1].branch = "flow"
            /\ \E flow \in Draws(rng, 4) : Micro(flow) < 60 * Damp(state, settings)
            /\ \E side \in Draws(rng, 5) :
                 ret'[1].candidate[1].side = "BUY" <=> Micro(side) < 500000
       /\ ret'[1].candidate = Null =>
            /\ ret'[1].branch = "none"
            /\ \E flow \in Draws(rng, 4) : Micro(flow) >= 60 * Damp(state, settings)]_vars

\* C26's case: the buy side was past the threshold at any damping (pBuy *
\* 0.65 > 0.60), the draw r failed, and random flow made the engine buy at
\* its bid, the side opposite to the edge.
FlowBoughtAgainstEdge ==
  /\ ret # Null
  /\ ret[1].fill # Null
  /\ ret[1].branch = "flow"
  /\ ret[1].fill[1].side = "BUY"
  /\ ret[1].fill[1].fair > ret[1].q.ask.v
  /\ Probabilities(ret[1].q, ret[1].scenario, ret[1].fill[1].fair).pBuy * 650 > 600000

\* The draws a call makes, by the branch it takes.
DrawsOf(branch) ==
  IF branch = "directional" THEN 3 ELSE IF branch = "none" THEN 4 ELSE 5

\* C27: a call with a valid quote makes 3, 4 or 5 draws as its branch is
\* directional, none or flow, and leaves the generator that many calls on,
\* whether its candidate fill is turned away or not; the first two draws are
\* those of the fair value.
DrawsByBranch ==
  [][(CallStep /\ ~Threw(ret'[1])) =>
       /\ ret'[1].draws = DrawsOf(ret'[1].branch)
       /\ rng' = After(rng, DrawsOf(ret'[1].branch))
       /\ ret'[1].candidate # Null =>
            \E u \in Draws(rng, 1), v \in Draws(rng, 2) :
              ret'[1].candidate[1].fair = sampleFair(ret'[1].scenario.trueValue, u, v)]_vars

\* C27's case: a seeded engine made five draws for a random-flow candidate
\* that the inventory limit turned away.
FiveDrawsThenRejected ==
  /\ settings.seed # NoSeed
  /\ ret # Null
  /\ ret[1].fill = Null
  /\ ret[1].candidate # Null
  /\ ret[1].branch = "flow"
  /\ ret[1].draws = 5

\* C28: with inventoryLimit >= 1 the damping factor of a call made in any
\* reachable state is 1 - 0.35 * |inv| / inventoryLimit (to the thousandth
\* below), so it lies in [0.65, 1], is 1 at inventory 0, and is never the
\* clamp's floor 0.35.
DampNeverFloored ==
  settings.inventoryLimit >= 1 =>
    LET damp == Damp(state, settings)
        cut == 1000 - damp
    IN  /\ 650 <= damp /\ damp <= 1000
        /\ cut * settings.inventoryLimit <= 350 * Abs(state.inv)
        /\ 350 * Abs(state.inv) < (cut + 1) * settings.inventoryLimit
        /\ state.inv = 0 => damp = 1000

\* C28's case: a call made with the inventory at the limit, at damping 0.65.
CalledAtFullPressure ==
  /\ Abs(state.inv) = settings.inventoryLimit
  /\ Damp(state, settings) = 650
  /\ ret # Null
  /\ ret[1].error = Null
  /\ ret[1].fill = Null

RECURSIVE SumInv(_)
\* The inventory a fill history adds up to.
SumInv(fills) ==
  IF fills = <<>> THEN 0
  ELSE SumInv(SubSeq(fills, 1, Len(fills) - 1))
       + (IF fills[Len(fills)].side = "BUY" THEN fills[Len(fills)].qty
          ELSE -fills[Len(fills)].qty)

RECURSIVE SumCash(_)
\* The cash a fill history adds up to.
SumCash(fills) ==
  IF fills = <<>> THEN 0
  ELSE SumCash(SubSeq(fills, 1, Len(fills) - 1))
       + (IF fills[Len(fills)].side = "BUY"
          THEN -fills[Len(fills)].price * fills[Len(fills)].qty
          ELSE fills[Len(fills)].price * fills[Len(fills)].qty)

\* C29: inventory is the sum over the fills of +qty for a BUY and -qty for a
\* SELL, cash the sum of -price * qty for a BUY and +price * qty for a SELL;
\* every fill moves both (its quantity and its price are positive).
LedgerIsSumOfFills ==
  /\ state.inv = SumInv(state.fills)
  /\ state.cash = SumCash(state.fills)
  /\ \A i \in 1..Len(state.fills) :
       state.fills[i].qty > 0 /\ state.fills[i].price > 0

\* C29's case: a BUY and a SELL of different quantities, in either order.
BoughtAndSoldUnequally ==
  /\ Len(state.fills) = 2
  /\ state.fills[1].side # state.fills[2].side
  /\ state.fills[1].qty # state.fills[2].qty
  /\ state.fills[1].price # state.fills[2].price

\* The quote defaultQuote would give for the same estimate and settings at
\* another inventory.
QuoteAt(st, s, estimate, inv) ==
  defaultQuote([st EXCEPT !.inv = inv], s, NewRng(s), estimate).ret

\* The half-spread and the mid as stated: base * (1 + spreadWiden * |n|) and
\* estimate - invSkew * n * half, n = clamp(inv / inventoryLimit, -1, 1),
\* in millionths.
SkewedAsStated(at, s, estimate) ==
  LET limit == s.inventoryLimit
      n == clamp(at.inv, -limit, limit)
      half == MulDiv(FlooredHalf(s, estimate),
                     1000 * limit + s.spreadWiden * Abs(n), 1000 * limit)
      mid == estimate - MulDiv(half, s.invSkew * n, 1000 * limit)
  IN  [half |-> half, mid |-> mid]

\* C30 as stated: off the bid floor the midpoint is below the estimate for
\* every long inventory and above it for every short one.
DefaultQuoteSkewsStrictly ==
  (LastQuery("defaultQuote") /\ query[1].value.bid > Epsilon) =>
    LET v == query[1].value
        estimate == query[1].arg
    IN  /\ query[1].at.inv > 0 => v.bid + v.ask < 2 * estimate
        /\ query[1].at.inv < 0 => v.bid + v.ask > 2 * estimate

\* C30: off the bid floor, ask - bid is twice base * (1 + spreadWiden * |n|)
\* and the midpoint is estimate - invSkew * n * half; the midpoint is not
\* above the estimate for long inventory and not below it for short
\* inventory, strictly so when invSkew > 0 (at invSkew = 0 it is the
\* estimate); ask - bid is not smaller than at any inventory of the same
\* sign nearer to zero.
DefaultQuoteSkewsAndWidens ==
  (LastQuery("defaultQuote") /\ query[1].value.bid > Epsilon) =>
    LET v == query[1].value
        estimate == query[1].arg
        at == query[1].at
        s == query[1].settings
        stated == SkewedAsStated(at, s, estimate)
        sign == IF at.inv < 0 THEN -1 ELSE 1
    IN  /\ v.ask - v.bid = 2 * stated.half
        /\ v.bid + v.ask = 2 * stated.mid
        /\ at.inv > 0 => /\ v.bid + v.ask <= 2 * estimate
                         /\ s.invSkew > 0 => v.bid + v.ask < 2 * estimate
        /\ at.inv < 0 => /\ v.bid + v.ask >= 2 * estimate
                         /\ s.invSkew > 0 => v.bid + v.ask > 2 * estimate
        /\ s.invSkew = 0 => v.bid + v.ask = 2 * estimate
        /\ \A j \in 0..Abs(at.inv) :
             LET nearer == QuoteAt(at, s, estimate, sign * j)
             IN  nearer.bid > Epsilon => nearer.ask - nearer.bid <= v.ask - v.bid

\* C30's case: a quote asked for at long inventory with invSkew > 0 and
\* spreadWiden > 0, off the bid floor, below the estimate and wider than flat.
DefaultQuoteAskedLong ==
  /\ LastQuery("defaultQuote")
  /\ query[1].at.inv > 0
  /\ query[1].settings.invSkew > 0
  /\ query[1].settings.spreadWiden > 0
  /\ query[1].value.bid > Epsilon
  /\ query[1].value.bid + query[1].value.ask < 2 * query[1].arg
  /\ LET flat == QuoteAt(query[1].at, query[1].settings, query[1].arg, 0)
     IN  flat.ask - flat.bid < query[1].value.ask - query[1].value.bid

\* A click on Market Making: the step that builds a new engine.
StartStep == screen = "welcome" /\ screen' = "play"

\* C21: an engine, once built, reads the settings it was built with whatever
\* the page does: as long as no new engine is built, two successive pnl reads
\* the page makes at the same ledger and the same mark give the same figures.
EnginePnlKeepsItsSettings ==
  [][(/\ engine
      /\ ~StartStep
      /\ query # Null /\ query' # Null
      /\ query[1].op = "pnl" /\ query'[1].op = "pnl"
      /\ query'[1].at = query[1].at
      /\ query'[1].arg = query[1].arg)
     => query'[1].value = query[1].value]_vars

\* C22: the ledger and the generator of an engine change only in a step that
\* calls submitQuote; Skip, Auto-quote, the timer, End, Play Again, the
\* welcome screen's inputs and every rendering leave both as they were. A
\* click on Market Making replaces the engine by a newly built one.
LedgerChangesOnlyInSubmitQuote ==
  [][/\ (~CallStep /\ ~StartStep) => (state' = state /\ rng' = rng)
     /\ StartStep => (state' = NewState /\ rng' = NewRng(settings'))]_vars

\* C22's case: the end screen rendered after fills, its pnl read made on the
\* ledger and the generator the last submitQuote left.
EndRenderedAfterFills ==
  /\ screen = "end"
  /\ Len(state.fills) > 0
  /\ ret # Null
  /\ ret[1].fill # Null
  /\ query # Null
  /\ query[1].op = "pnl"
  /\ query[1].at = state
  /\ rng = After(NewRng(settings), 3) \/ rng = After(NewRng(settings), 5)

(***************************************************************************)
(* Properties of the page: recovery, the end of a session, the interval,   *)
(* the keyboard, the scenarios and the odds game.                          *)
(***************************************************************************)
\* C31: when submitQuote throws on the submitted quote, no round is recorded,
\* the scenario stays, the ledger and the generator are as they were, and the
\* play screen stays up with its engine and scenario, so that the next click
\* on Submit Quote goes to the engine for the same scenario.
RejectedQuoteIsReprompted ==
  [][(CallStep /\ Threw(ret'[1])) =>
       /\ rounds' = rounds
       /\ curScenario' = curScenario
       /\ state' = state
       /\ rng' = rng
       /\ Bound(screen') = "bindPlay"
       /\ engine'
       /\ curScenario' # Null]_vars

\* C31's case: after a recorded round, a quote for the scenario on display
\* has been rejected and the page still shows that scenario.
RejectedAfterARound ==
  /\ ret # Null
  /\ Threw(ret[1])
  /\ screen = "play"
  /\ Len(rounds) = 1
  /\ curScenario = Some(ret[1].scenario)

\* C32: a game on the play screen whose end the clock can reach comes to the
\* end screen, and whenever the play screen gives way to the end screen the
\* interval is cleared.
SessionEnds ==
  /\ (screen = "play" /\ tEnd <= MaxNow * TickSec)
       ~> (screen = "end" /\ ~timerHandle)
  /\ [][(screen = "play" /\ screen' = "end") => ~timerHandle']_vars

\* C32's case: a game ended by its interval at 0 seconds left, after a fill.
EndedByTheClock ==
  /\ screen = "end"
  /\ ~timerHandle
  /\ tLeft = 0
  /\ now * TickSec >= tEnd
  /\ Len(state.fills) > 0

\* C33: on the welcome and end screens no interval is set.
NoIntervalOffPlay ==
  screen \in {"welcome", "end"} => ~timerHandle

\* C38: the screen 'odds' is drawn by oddsScreen() and bound by bindOdds().
OddsScreenShown ==
  screen = "odds" => (Drawn(screen) = "oddsScreen" /\ Bound(screen) = "bindOdds")

\* The scenarios of the last three rounds of rs
LastThree(rs) == {rs[i].scenario : i \in {j \in 1..Len(rs) : j > Len(rs) - 3}}

\* C37: after a click on Skip (the play screen stays, without a call and
\* without a key) the scenario on display is another one; after a submission
\* that records one round it is another one and none of the last three
\* rounds', some scenario being left outside them.
ShownNeverRepeats ==
  [][/\ (/\ screen = "play" /\ screen' = "play"
         /\ calls' = calls /\ pressed' = Null)
          => curScenario' # curScenario
     /\ (/\ Len(rounds') = Len(rounds) + 1
         /\ Scenarios \ LastThree(rounds') # {})
          => /\ curScenario' # curScenario
             /\ curScenario'[1] \notin LastThree(rounds')]_vars

\* C34: a submitQuote call, a new round or a new fill comes only in a step
\* taken on the play screen, whatever listeners earlier renders left behind.
NoSubmissionOffPlay ==
  [][(\/ calls' # calls
      \/ Len(rounds') > Len(rounds)
      \/ Len(state'.fills) > Len(state.fills))
     => (screen = "play" /\ screen' = "play")]_vars

\* C34's case: Enter pressed off the play screen while a listener of replaced
\* inputs that held a quote had not fired; no call was made.
EnterOffPlayWithListener ==
  /\ pressed # Null
  /\ pressed[1].key = "Enter"
  /\ pressed[1].stale > 0
  /\ screen \in {"welcome", "end"}
  /\ pressed[1].calls = 0
  /\ listeners = Fired

\* C35: Enter pressed on the play screen with a quote in the inputs submits
\* that quote.
EnterSubmits ==
  (/\ pressed # Null
   /\ pressed[1].key = "Enter"
   /\ screen = "play"
   /\ pressed[1].typed # Null)
  => (/\ pressed[1].calls >= 1
      /\ ret # Null
      /\ ret[1].q = pressed[1].typed[1])

\* C36: one Enter on the play screen makes at most one submitQuote call and
\* at most one round, and a call it makes is for the quote in the inputs on
\* display.
EnterSubmitsOnce ==
  (pressed # Null /\ pressed[1].key = "Enter" /\ screen = "play")
  => (/\ pressed[1].calls <= 1
      /\ pressed[1].rounds <= 1
      /\ pressed[1].calls = 1 =>
           (pressed[1].typed # Null /\ ret[1].q = pressed[1].typed[1]))

====
